---- MODULE Spec2Model ----
(***************************************************************************)
(* Verification model of bitfiltrator (epfl-vlsc/bitfiltrator): the frame  *)
(* address register codec, the frame address incrementer, the packet       *)
(* decoder of a bitstream and the extraction of configuration frames.      *)
(*                                                                         *)
(* A 32-bit word is a sequence of 4 bytes, most significant first, as the  *)
(* big-endian view (">u4") of the byte buffer gives it. A Python int is    *)
(* kept as its binary digits (most significant first, no leading zero), a  *)
(* field of a word as a natural number.                                    *)
(***************************************************************************)
EXTENDS Integers, Sequences, FiniteSets, TLC

VARIABLES
  far_pc,      \* FAR codec: "in" | "decoded" | "encoded"
  far_arch,    \* FAR codec: architecture of the ArchSpec
  far_in,      \* FAR codec: the 32-bit integer handed to from_int
  far_rec,     \* FAR codec: the FrameAddressRegister from_int built
  far_out      \* FAR codec: the int to_int returned (binary digits)

VARIABLES
  inc_pc,      \* incrementer: "idle" | "ready" | "failed"
  inc_dev,     \* incrementer: the device summary it was constructed from
  inc_idcode,  \* incrementer: IDCODE handed to the calls
  inc_std,     \* FrameAddressIncrementer.num_minors_per_std_colMajor
  inc_bram,    \* FrameAddressIncrementer.num_minors_per_bram_colMajor
  inc_start,   \* incrementer: the FAR the walk started from
  inc_arg,     \* incrementer: the FAR handed to the latest call
  inc_far,     \* incrementer: the FAR the latest call returned
  inc_n        \* incrementer: number of increments applied since inc_start

VARIABLES
  dec_pc,        \* decoder: "idle" | "start" | "view" | "loop" | "boundary" | "done" | exception
  dec_buf,       \* decoder: the bytes of the bitstream data
  dec_syncs,     \* all_sync_word_byte_ofsts
  dec_sync,      \* current_sync_word_byte_ofst
  dec_word_ofst, \* word_ofst of the section being decoded
  dec_reg,       \* current_reg_addr of the section being decoded
  dec_sub,       \* packets of the section being decoded, offsets from its sync word
  dec_packets,   \* packets of the sections decoded so far; Bitstream._packets in the end
  dec_sections,  \* history: sync offset, first packet and end of every section
  dec_last,      \* history: what the latest loop iteration met
  dec_type1,     \* history: register of the latest TYPE1 packet decoded
  dec_data_ofst  \* hdr.bitstream_data_ofst

VARIABLES
  ext_pc,         \* extraction: "idle" | "parsed" | "entries" | "frames" | "done" | exception
  ext_dev,        \* extraction: device summary of header.fpga_part
  ext_packets,    \* Bitstream._packets
  ext_compressed, \* Bitstream.is_compressed()
  ext_raw,        \* Bitstream._raw_configuration_arrays
  ext_std,        \* far_incrementer.num_minors_per_std_colMajor
  ext_bram,       \* far_incrementer.num_minors_per_bram_colMajor
  ext_entries,    \* number of recorded payloads the loops have reached
  ext_idx,        \* singleframes_idx
  ext_far,        \* far of the loops
  ext_frames,     \* idcode_far_frames
  ext_last,       \* history: what the latest iteration of the while loop did
  ext_encrypted,  \* Bitstream.is_encrypted()
  ext_raw_set,    \* Bitstream._raw_configuration_arrays is not None
  ext_cache,      \* Bitstream._individual_configuration_arrays
  ext_pfc,        \* Bitstream._is_per_frame_crc
  ext_calls       \* history: how the earlier calls on the Bitstream ended

VARIABLES
  loc_pc,      \* bit locator: "idle" | "start" | "slr" | "row" | exception
  loc_dev,     \* bit locator: the SLRs of the device summary
  loc_kind,    \* bit locator: "reg" | "lut" | "bram", the locate_* called
  loc_y,       \* bel_y parsed from the name
  loc_slr,     \* slr_name of the locate_* call, <<>> before it is bound
  loc_row,     \* row_major of the locate_* call, <<>> before it is bound
  loc_x,       \* bel_x parsed from the name
  loc_bel,     \* bel_name parsed from the name, "" for a BRAM
  loc_col,     \* (col_major, col_tile_type), <<>> before it is bound
  loc_lut_added, \* ArchSummary._lut_locs: the keys added since __init__
  loc_reg_added, \* ArchSummary._reg_locs: the keys added since __init__
  loc_out      \* what the locate_* call returned, <<>> before it returns

VARIABLES
  chk_pc,    \* state checker: "idle" | "start" | "pass" | "fail" | exception
  chk_init,  \* state checker: INIT of the flip-flop in the expected values
  chk_frame, \* state checker: the ConfigFrame found at the located (SLR, FAR)
  chk_ofst,  \* state checker: frame_ofst the bit locator returned
  chk_found  \* found_reg_init, -1 before it is read

VARIABLES
  dif_pc,       \* differ: "idle" | "start" | "loop" | "returned" | exception
  dif_baseline, \* differ: per-FAR configuration arrays of the baseline bitstream
  dif_modified, \* differ: per-FAR configuration arrays of the modified bitstream
  dif_todo,     \* differ: IDCODEs of the baseline the outer loop has yet to visit
  dif_out       \* differ: diff_idcodes, diff_fars, diff_frameOfsts, one entry per append

VARIABLES
  reg_pc,     \* registry: where each thread is in get_device_summary, "idle" when none runs
  reg_parts,  \* registry: _parts_all_db is loaded
  reg_entry,  \* registry: _device_summaries[device], -1 when the key is absent
  reg_loads,  \* registry: DeviceSummary objects constructed so far
  reg_new,    \* registry: per thread, the DeviceSummary it has constructed and not yet stored
  reg_ret,    \* registry: per thread, the DeviceSummary its last call returned
  reg_calls,  \* registry: per thread, the calls it has finished
  reg_writes  \* history: assignments to _device_summaries[device]

farVars == <<far_pc, far_arch, far_in, far_rec, far_out>>
locVars == <<loc_pc, loc_dev, loc_kind, loc_y, loc_slr, loc_row, loc_x, loc_bel, loc_col,
             loc_lut_added, loc_reg_added, loc_out>>
regVars == <<reg_pc, reg_parts, reg_entry, reg_loads, reg_new, reg_ret, reg_calls, reg_writes>>
difVars == <<dif_pc, dif_baseline, dif_modified, dif_todo, dif_out>>
chkVars == <<chk_pc, chk_init, chk_frame, chk_ofst, chk_found>>
incVars == <<inc_pc, inc_dev, inc_idcode, inc_std, inc_bram, inc_start, inc_arg,
             inc_far, inc_n>>

\* What the operations of one component leave alone.
decVars == <<dec_pc, dec_buf, dec_syncs, dec_sync, dec_word_ofst, dec_reg, dec_sub,
             dec_packets, dec_sections, dec_last, dec_type1, dec_data_ofst>>
extCaches == <<ext_encrypted, ext_raw_set, ext_cache, ext_pfc, ext_calls>>
extVars == <<ext_pc, ext_dev, ext_packets, ext_compressed, ext_raw, ext_std, ext_bram,
             ext_entries, ext_idx, ext_far, ext_frames, ext_last, extCaches>>
notFarVars == <<incVars, decVars, extVars, locVars, chkVars, difVars, regVars>>
notIncVars == <<farVars, decVars, extVars, locVars, chkVars, difVars, regVars>>
notDecVars == <<farVars, incVars, extVars, locVars, chkVars, difVars, regVars>>
notExtVars == <<farVars, incVars, decVars, locVars, chkVars, difVars, regVars>>
notLocVars == <<farVars, incVars, decVars, extVars, chkVars, difVars, regVars>>
notChkVars == <<farVars, incVars, decVars, extVars, locVars, difVars, regVars>>
notDifVars == <<farVars, incVars, decVars, extVars, locVars, chkVars, regVars>>
notRegVars == <<farVars, incVars, decVars, extVars, locVars, chkVars, difVars>>

vars == <<far_pc, far_arch, far_in, far_rec, far_out,
          inc_pc, inc_dev, inc_idcode, inc_std, inc_bram, inc_start, inc_arg,
          inc_far, inc_n,
          dec_pc, dec_buf, dec_syncs, dec_sync, dec_word_ofst, dec_reg, dec_sub,
          dec_packets, dec_sections, dec_last, dec_type1, dec_data_ofst,
          ext_pc, ext_dev, ext_packets, ext_compressed, ext_raw, ext_std, ext_bram,
          ext_entries, ext_idx, ext_far, ext_frames, ext_last,
          ext_encrypted, ext_raw_set, ext_cache, ext_pfc, ext_calls,
          loc_pc, loc_dev, loc_kind, loc_y, loc_slr, loc_row, loc_x, loc_bel, loc_col,
          loc_lut_added, loc_reg_added, loc_out,
          chk_pc, chk_init, chk_frame, chk_ofst, chk_found,
          dif_pc, dif_baseline, dif_modified, dif_todo, dif_out,
          reg_pc, reg_parts, reg_entry, reg_loads, reg_new, reg_ret, reg_calls, reg_writes>>

NoValue == "none"

-----------------------------------------------------------------------------
(* Bits and integers                                                        *)

\* The 8 bits of a byte, most significant first.
ByteBits(b) ==
  <<b \div 128, (b \div 64) % 2, (b \div 32) % 2, (b \div 16) % 2,
    (b \div 8) % 2, (b \div 4) % 2, (b \div 2) % 2, b % 2>>

\* The 32 bits of a word, bit 31 first.
WordBits(w) == ByteBits(w[1]) \o ByteBits(w[2]) \o ByteBits(w[3]) \o ByteBits(w[4])

\* Value of a sequence of binary digits (int(s, 2)), for values below 2^31.
RECURSIVE BinPrefixToNat(_, _)
BinPrefixToNat(s, n) == IF n = 0 THEN 0 ELSE 2 * BinPrefixToNat(s, n - 1) + s[n]

BinToNat(s) == BinPrefixToNat(s, Len(s))

\* Binary digits of a natural number, as format(n, "b") gives them.
RECURSIVE NatToBin(_)
NatToBin(n) == IF n < 2 THEN <<n>> ELSE NatToBin(n \div 2) \o <<n % 2>>

\* A Python int given by binary digits: leading zeros carry no value.
RECURSIVE BinInt(_)
BinInt(s) ==
  IF Len(s) = 0 THEN <<0>>
  ELSE IF Len(s) > 1 /\ s[1] = 0 THEN BinInt(Tail(s))
  ELSE s

\* helpers.bits mutated: the mask is one bit too narrow.
bits_narrow(input, idx_high, idx_low) ==
  BinToNat(SubSeq(WordBits(input), 32 - idx_high + 1, 32 - idx_low))

\* helpers.bits: (input >> idx_low) & ((1 << (idx_high - idx_low + 1)) - 1).
bits(input, idx_high, idx_low) ==
  BinToNat(SubSeq(WordBits(input), 32 - idx_high, 32 - idx_low))

\* helpers.width
width(idx_high, idx_low) == idx_high - idx_low + 1

\* f"{n:0>{w}b}": binary digits, padded on the left with zeros up to w digits
\* and never cut.
PadBin(n, w) ==
  LET d == NatToBin(n)
  IN  IF Len(d) >= w THEN d ELSE [i \in 1..(w - Len(d)) |-> 0] \o d

\* A natural number below 2^32 given by two 16-bit halves, as a word.
WordOf(hi16, lo16) == <<hi16 \div 256, hi16 % 256, lo16 \div 256, lo16 % 256>>

-----------------------------------------------------------------------------
(* Architecture spec (arch_spec.py)                                         *)

ULTRASCALE == "ULTRASCALE"
ULTRASCALE_PLUS == "ULTRASCALE_PLUS"
ArchNames == {ULTRASCALE, ULTRASCALE_PLUS}

\* UltraScaleSpec / UltraScalePlusSpec: the FAR field indices.
far_reserved_idx_high(spec) == 31
far_reserved_idx_low(spec) == IF spec = ULTRASCALE THEN 26 ELSE 27
far_block_type_idx_high(spec) == IF spec = ULTRASCALE THEN 25 ELSE 26
far_block_type_idx_low(spec) == IF spec = ULTRASCALE THEN 23 ELSE 24
far_row_address_idx_high(spec) == IF spec = ULTRASCALE THEN 22 ELSE 23
far_row_address_idx_low(spec) == IF spec = ULTRASCALE THEN 17 ELSE 18
far_column_address_idx_high(spec) == IF spec = ULTRASCALE THEN 16 ELSE 17
far_column_address_idx_low(spec) == IF spec = ULTRASCALE THEN 7 ELSE 8
far_minor_address_idx_high(spec) == IF spec = ULTRASCALE THEN 6 ELSE 7
far_minor_address_idx_low(spec) == 0

far_reserved_width(spec) == width(far_reserved_idx_high(spec), far_reserved_idx_low(spec))
far_block_type_width(spec) == width(far_block_type_idx_high(spec), far_block_type_idx_low(spec))
far_row_address_width(spec) == width(far_row_address_idx_high(spec), far_row_address_idx_low(spec))
far_column_address_width(spec) == width(far_column_address_idx_high(spec), far_column_address_idx_low(spec))
far_minor_address_width(spec) == width(far_minor_address_idx_high(spec), far_minor_address_idx_low(spec))

-----------------------------------------------------------------------------
(* Frame address register (frame_spec.py, frame.py)                         *)

\* FarBlockType, by value.
CLB_IO_CLK == 0
BRAM_CONTENT == 1
FarBlockTypeValues == 0..7

\* FrameAddressRegister.__init__
FrameAddressRegister(reserved, block_type, row_addr, col_addr, minor_addr, spec) ==
  [spec |-> spec, reserved |-> reserved, block_type |-> block_type,
   row_addr |-> row_addr, col_addr |-> col_addr, minor_addr |-> minor_addr]

\* FrameAddressRegister.from_int mutated: the row address is read one bit short.
from_int_short_row(far, spec) ==
  FrameAddressRegister(
    bits(far, far_reserved_idx_high(spec), far_reserved_idx_low(spec)),
    bits(far, far_block_type_idx_high(spec), far_block_type_idx_low(spec)),
    bits(far, far_row_address_idx_high(spec) - 1, far_row_address_idx_low(spec)),
    bits(far, far_column_address_idx_high(spec), far_column_address_idx_low(spec)),
    bits(far, far_minor_address_idx_high(spec), far_minor_address_idx_low(spec)),
    spec)

\* FrameAddressRegister.from_int
from_int(far, spec) ==
  FrameAddressRegister(
    bits(far, far_reserved_idx_high(spec), far_reserved_idx_low(spec)),
    bits(far, far_block_type_idx_high(spec), far_block_type_idx_low(spec)),
    bits(far, far_row_address_idx_high(spec), far_row_address_idx_low(spec)),
    bits(far, far_column_address_idx_high(spec), far_column_address_idx_low(spec)),
    bits(far, far_minor_address_idx_high(spec), far_minor_address_idx_low(spec)),
    spec)

\* FrameAddressRegister.to_bin
to_bin(self) ==
  PadBin(self.reserved, far_reserved_width(self.spec))
    \o PadBin(self.block_type, far_block_type_width(self.spec))
    \o PadBin(self.row_addr, far_row_address_width(self.spec))
    \o PadBin(self.col_addr, far_column_address_width(self.spec))
    \o PadBin(self.minor_addr, far_minor_address_width(self.spec))

\* FrameAddressRegister.to_int
to_int(self) == BinInt(to_bin(self))

\* FrameAddressRegister.__eq__
FarEq(self, other) ==
  <<self.reserved, self.block_type, self.row_addr, self.col_addr, self.minor_addr>>
    = <<other.reserved, other.block_type, other.row_addr, other.col_addr, other.minor_addr>>

-----------------------------------------------------------------------------
(* FAR codec: from_int followed by to_int on one 32-bit integer             *)

\* Byte values the 32-bit inputs are built from: every bit of a byte is set in
\* one of them and clear in another.
FarByteValues == {0, 1, 128, 170, 224, 255}

\* The integer 0x00e00000.
FarExampleInput == WordOf(224, 0)

FarInputs == [1..4 -> FarByteValues]

FarInit ==
  /\ far_pc = "in"
  /\ far_arch \in ArchNames
  /\ far_in \in FarInputs
  /\ far_rec = NoValue
  /\ far_out = NoValue

FarIdle ==
  /\ far_pc = "idle"
  /\ far_arch = NoValue
  /\ far_in = NoValue
  /\ far_rec = NoValue
  /\ far_out = NoValue

\* FrameAddressRegister.from_int(v, spec)
FarFromInt ==
  /\ far_pc = "in"
  /\ far_rec' = from_int(far_in, far_arch)
  /\ far_pc' = "decoded"
  /\ UNCHANGED <<far_arch, far_in, far_out>>
  /\ UNCHANGED notFarVars

\* far.to_int()
FarToInt ==
  /\ far_pc = "decoded"
  /\ far_out' = to_int(far_rec)
  /\ far_pc' = "encoded"
  /\ UNCHANGED <<far_arch, far_in, far_rec>>
  /\ UNCHANGED notFarVars

FarNext == FarFromInt \/ FarToInt

-----------------------------------------------------------------------------
(* Device summary (device_summary.py) and the devices of the model          *)

\* An IDCODE is a 32-bit word.
IdcodeA == <<4, 40, 224, 147>>
IdcodeB == <<4, 40, 224, 148>>
IdcodeUnknown == <<0, 0, 0, 7>>

\* A device with one SLR of 2 rows whose standard columns have 4, 12 and 58
\* minors, and one BRAM content column of 2 minors per row.
DevExample ==
  [arch |-> ULTRASCALE_PLUS,
   slrs |-> << [name |-> "SLR0", idcode |-> IdcodeA,
                min_far_row_idx |-> 0, max_far_row_idx |-> 1,
                std  |-> << <<4, 12, 58>>, <<4, 12, 58>> >>,
                bram |-> << <<2>>, <<2>> >>] >>]

\* A device with two SLRs whose rows differ in their columns.
DevSmall ==
  [arch |-> ULTRASCALE,
   slrs |-> << [name |-> "SLR0", idcode |-> IdcodeA,
                min_far_row_idx |-> 0, max_far_row_idx |-> 1,
                std  |-> << <<2, 1>>, <<1, 3>> >>,
                bram |-> << <<1>>, <<2, 1>> >>],
               [name |-> "SLR1", idcode |-> IdcodeB,
                min_far_row_idx |-> 0, max_far_row_idx |-> 0,
                std  |-> << <<1, 2>> >>,
                bram |-> << <<1>> >>] >>]

Devices == {DevExample, DevSmall}

\* DeviceSummary.get_slr_names, by position in the summary.
get_slr_names(dev) == 1..Len(dev.slrs)

\* DeviceSummary.get_slr_idcode
get_slr_idcode(dev, slr) == dev.slrs[slr].idcode

\* DeviceSummary.get_min_far_row_idx / get_max_far_row_idx
get_min_far_row_idx(dev, slr) == dev.slrs[slr].min_far_row_idx
get_max_far_row_idx(dev, slr) == dev.slrs[slr].max_far_row_idx

\* DeviceSummary.get_num_minors_per_std_col_major(slrName, rowMajor)
get_num_minors_per_std_col_major(dev, slr, rowMajor) == dev.slrs[slr].std[rowMajor + 1]

\* DeviceSummary.get_num_minors_per_bram_content_col_major(slrName, rowMajor)
get_num_minors_per_bram_content_col_major(dev, slr, rowMajor) ==
  dev.slrs[slr].bram[rowMajor + 1]

-----------------------------------------------------------------------------
(* Frame address incrementer (frame.py)                                     *)

\* A dict as a function; the empty dict.
EmptyDict == [k \in {} |-> <<>>]

\* defaultdict(lambda: defaultdict(list)).__getitem__(idcode): a missing key is
\* inserted with an empty dict.
DDIdcode(tbl, idcode) ==
  IF idcode \in DOMAIN tbl THEN tbl ELSE tbl @@ (idcode :> EmptyDict)

\* tbl[idcode][row] on the nested defaultdict: both missing keys are inserted,
\* the row with an empty list.
DDRow(tbl, idcode, row) ==
  LET t1 == DDIdcode(tbl, idcode)
  IN  IF row \in DOMAIN t1[idcode] THEN t1
      ELSE [t1 EXCEPT ![idcode] = @ @@ (row :> <<>>)]

\* FrameAddressIncrementer.__init__: the per-IDCODE, per-row minor counts.
IncTable(dev, kind) ==
  [idcode \in {get_slr_idcode(dev, s) : s \in get_slr_names(dev)} |->
     LET slr == CHOOSE s \in get_slr_names(dev) : get_slr_idcode(dev, s) = idcode
     IN  [rowMajor \in get_min_far_row_idx(dev, slr)..get_max_far_row_idx(dev, slr) |->
            IF kind = "std"
            THEN get_num_minors_per_std_col_major(dev, slr, rowMajor)
            ELSE get_num_minors_per_bram_content_col_major(dev, slr, rowMajor)]]

\* get_colMajors_numMinors_count mutated: the standard table is read whatever
\* the block type of the FAR is.
get_colMajors_std_only(std, bram, idcode, far) ==
  LET t == DDRow(std, idcode, far.row_addr)
      row == t[idcode][far.row_addr]
  IN  IF far.col_addr + 1 \in 1..Len(row)
      THEN [status |-> "ok", num_col_majors |-> Len(row),
            num_minors_in_col_major |-> row[far.col_addr + 1],
            std |-> t, bram |-> bram]
      ELSE [status |-> "IndexError", std |-> t, bram |-> bram]

\* FrameAddressIncrementer.get_colMajors_numMinors_count: the counts, or the
\* exception raised, and the two tables as the lookups leave them.
get_colMajors_numMinors_count(std, bram, idcode, far) ==
  IF far.block_type = CLB_IO_CLK THEN
    LET t == DDRow(std, idcode, far.row_addr)
        row == t[idcode][far.row_addr]
    IN  IF far.col_addr + 1 \in 1..Len(row)
        THEN [status |-> "ok", num_col_majors |-> Len(row),
              num_minors_in_col_major |-> row[far.col_addr + 1],
              std |-> t, bram |-> bram]
        ELSE [status |-> "IndexError", std |-> t, bram |-> bram]
  ELSE IF far.block_type = BRAM_CONTENT THEN
    LET t == DDRow(bram, idcode, far.row_addr)
        row == t[idcode][far.row_addr]
    IN  IF far.col_addr + 1 \in 1..Len(row)
        THEN [status |-> "ok", num_col_majors |-> Len(row),
              num_minors_in_col_major |-> row[far.col_addr + 1],
              std |-> std, bram |-> t]
        ELSE [status |-> "IndexError", std |-> std, bram |-> t]
  ELSE [status |-> "AssertionError", std |-> std, bram |-> bram]

\* The FAR increment computes from the counts and the number of rows.
IncrementCarry(far, num_col_majors, num_minors_in_col_major, num_rows) ==
  LET minor1 == far.minor_addr + 1
      carry_col == minor1 = num_minors_in_col_major
      minor2 == IF carry_col THEN 0 ELSE minor1
      col1 == IF carry_col THEN far.col_addr + 1 ELSE far.col_addr
      carry_row == col1 = num_col_majors
      col2 == IF carry_row THEN 0 ELSE col1
      row1 == IF carry_row THEN far.row_addr + 1 ELSE far.row_addr
      carry_bt == row1 = num_rows
      row2 == IF carry_bt THEN 0 ELSE row1
      bt2 == IF carry_bt
             THEN (IF far.block_type = CLB_IO_CLK THEN BRAM_CONTENT ELSE CLB_IO_CLK)
             ELSE far.block_type
  IN  FrameAddressRegister(far.reserved, bt2, row2, col2, minor2, far.spec)

\* FrameAddressIncrementer.increment mutated: the carry to the block type uses
\* the columns of the row in place of the number of rows.
increment_rows_from_cols(std, bram, idcode, far) ==
  LET c == get_colMajors_numMinors_count(std, bram, idcode, far)
  IN  IF c.status # "ok" THEN c
      ELSE [status |-> "ok",
            far |-> IncrementCarry(far, c.num_col_majors, c.num_minors_in_col_major,
                                   c.num_col_majors),
            std |-> DDIdcode(c.std, idcode), bram |-> c.bram]

\* FrameAddressIncrementer.increment: the next FAR, or the exception raised,
\* and the two tables as the call leaves them.
increment(std, bram, idcode, far) ==
  LET c == get_colMajors_numMinors_count(std, bram, idcode, far)
  IN  IF c.status # "ok" THEN c
      ELSE LET t == DDIdcode(c.std, idcode)
               num_rows == Cardinality(DOMAIN t[idcode])
           IN  [status |-> "ok",
                far |-> IncrementCarry(far, c.num_col_majors,
                                       c.num_minors_in_col_major, num_rows),
                std |-> t, bram |-> c.bram]

\* FrameAddressIncrementer.is_last_far_of_row
is_last_far_of_row(std, bram, idcode, far) ==
  LET c == get_colMajors_numMinors_count(std, bram, idcode, far)
  IN  IF c.status # "ok" THEN c
      ELSE [status |-> "ok",
            last |-> (far.col_addr = c.num_col_majors - 1
                      /\ far.minor_addr = c.num_minors_in_col_major - 1),
            std |-> c.std, bram |-> c.bram]

-----------------------------------------------------------------------------
(* Incrementer walk: a FrameAddressIncrementer is constructed for a device  *)
(* and increment is applied to a FAR again and again. A call that raises    *)
(* ends the walk: nothing in the program catches the exception.             *)

\* Largest value of the reserved field of the FARs the walk starts from.
MaxReserved == 1

\* The SLR of a device with the given IDCODE (DeviceSummary.get_slr_name).
SlrOfIdcode(dev, idcode) ==
  CHOOSE s \in get_slr_names(dev) : get_slr_idcode(dev, s) = idcode

DevIdcodes(dev) == {get_slr_idcode(dev, s) : s \in get_slr_names(dev)}

\* The minor counts of the device for an IDCODE and a block type, row by row.
DevRows(dev, idcode, block_type) ==
  IF block_type = CLB_IO_CLK THEN dev.slrs[SlrOfIdcode(dev, idcode)].std
  ELSE dev.slrs[SlrOfIdcode(dev, idcode)].bram

\* The FARs of a device: block type, row, column and minor inside its table.
DevFars(dev, idcode) ==
  UNION { UNION { UNION { { FrameAddressRegister(rsv, bt, r - 1, c - 1, m, dev.arch) :
                            m \in 0..(DevRows(dev, idcode, bt)[r][c] - 1),
                            rsv \in 0..MaxReserved } :
                          c \in 1..Len(DevRows(dev, idcode, bt)[r]) } :
                  r \in 1..Len(DevRows(dev, idcode, bt)) } :
          bt \in {CLB_IO_CLK, BRAM_CONTENT} }

\* FARs outside every device of the model: a reserved block type, a row, a
\* column or a minor past the table.
OutsideFars(dev) ==
  { FrameAddressRegister(0, 2, 0, 0, 0, dev.arch),
    FrameAddressRegister(0, CLB_IO_CLK, 5, 0, 0, dev.arch),
    FrameAddressRegister(0, BRAM_CONTENT, 0, 7, 0, dev.arch),
    FrameAddressRegister(0, CLB_IO_CLK, 0, 0, 60, dev.arch) }

RECURSIVE SumSeq(_)
SumSeq(s) == IF Len(s) = 0 THEN 0 ELSE s[1] + SumSeq(Tail(s))

RECURSIVE SumRows(_)
SumRows(rows) == IF Len(rows) = 0 THEN 0 ELSE SumSeq(rows[1]) + SumRows(Tail(rows))

\* Sum of the minor counts of all columns of all rows of both block types.
NTotal(dev, idcode) ==
  SumRows(DevRows(dev, idcode, CLB_IO_CLK)) + SumRows(DevRows(dev, idcode, BRAM_CONTENT))

\* Number of increments a walk applies at most.
WalkLength(dev, idcode) == IF idcode \in DevIdcodes(dev) THEN NTotal(dev, idcode) ELSE 1

IncInit ==
  /\ inc_pc = "ready"
  /\ inc_dev \in Devices
  /\ inc_idcode \in DevIdcodes(inc_dev) \cup {IdcodeUnknown}
  /\ inc_std = IncTable(inc_dev, "std")
  /\ inc_bram = IncTable(inc_dev, "bram")
  /\ inc_start \in (IF inc_idcode \in DevIdcodes(inc_dev)
                    THEN DevFars(inc_dev, inc_idcode) ELSE {})
                   \cup OutsideFars(inc_dev)
  /\ inc_arg = NoValue
  /\ inc_far = inc_start
  /\ inc_n = 0

IncIdle ==
  /\ inc_pc = "idle"
  /\ inc_dev = NoValue
  /\ inc_idcode = NoValue
  /\ inc_std = NoValue
  /\ inc_bram = NoValue
  /\ inc_start = NoValue
  /\ inc_arg = NoValue
  /\ inc_far = NoValue
  /\ inc_n = 0

\* far = far_incrementer.increment(idcode, far), returning.
IncIncrement ==
  /\ inc_pc = "ready"
  /\ inc_n < WalkLength(inc_dev, inc_idcode)
  /\ LET r == increment(inc_std, inc_bram, inc_idcode, inc_far)
     IN  /\ r.status = "ok"
         /\ inc_far' = r.far
         /\ inc_std' = r.std
         /\ inc_bram' = r.bram
  /\ inc_arg' = inc_far
  /\ inc_n' = inc_n + 1
  /\ UNCHANGED <<inc_pc, inc_dev, inc_idcode, inc_start>>
  /\ UNCHANGED notIncVars

\* far_incrementer.increment(idcode, far), raising.
IncIncrementRaises ==
  /\ inc_pc = "ready"
  /\ inc_n < WalkLength(inc_dev, inc_idcode)
  /\ LET r == increment(inc_std, inc_bram, inc_idcode, inc_far)
     IN  /\ r.status # "ok"
         /\ inc_pc' = r.status
         /\ inc_std' = r.std
         /\ inc_bram' = r.bram
  /\ inc_arg' = inc_far
  /\ UNCHANGED <<inc_dev, inc_idcode, inc_start, inc_far, inc_n>>
  /\ UNCHANGED notIncVars

IncNext == IncIncrement \/ IncIncrementRaises

-----------------------------------------------------------------------------
(* Packets (packet_spec.py, packet.py)                                      *)

PACKET_HEADER_TYPE_IDX_HIGH == 31
PACKET_HEADER_TYPE_IDX_LOW == 29
PACKET_OPCODE_IDX_HIGH == 28
PACKET_OPCODE_IDX_LOW == 27
PACKET_TYPE_1_REGISTER_ADDRESS_IDX_HIGH == 26
PACKET_TYPE_1_REGISTER_ADDRESS_IDX_LOW == 13
PACKET_TYPE_1_RESERVED_IDX_HIGH == 12
PACKET_TYPE_1_RESERVED_IDX_LOW == 11
PACKET_TYPE_1_WORD_COUNT_IDX_HIGH == 10
PACKET_TYPE_1_WORD_COUNT_IDX_LOW == 0
PACKET_TYPE_2_WORD_COUNT_IDX_HIGH == 26
PACKET_TYPE_2_WORD_COUNT_IDX_LOW == 0

\* packet_spec.Type
TYPE1 == 1
TYPE2 == 2

\* packet_spec.Opcode
NOOP == 0
READ == 1
WRITE == 2
RSVD == 3

\* packet_spec.Register: the members the decoder and the extraction name, and
\* the values the enum has a member for.
CRC == 0
FAR == 1
FDRI == 2
CMD == 4
IDCODE == 12
RSVD_30 == 30
RegisterValues == 0..31

\* packet_spec.Command.DESYNC
DESYNC == 13

\* prev_reg_addr = None of create_packet, current_reg_addr = None of the decoder
\* and the reserved field of a TYPE2 packet: no value.
None == -1

\* 32-bit words of bitstream_spec.py
SYNC_WORD == <<170, 153, 85, 102>>
DUMMY_WORD == <<255, 255, 255, 255>>

\* The word of a small natural number (a command code).
SmallWord(n) == <<0, 0, n \div 256, n % 256>>

\* Packet.__init__
Packet(hdr_tpe, opcode, reg_addr, reserved, word_count, data, byte_ofst) ==
  [hdr_tpe |-> hdr_tpe, opcode |-> opcode, reg_addr |-> reg_addr,
   reserved |-> reserved, word_count |-> word_count, data |-> data,
   byte_ofst |-> byte_ofst]

\* Packet.data_size_bytes, data_size_words, packet_size_bytes, packet_size_words
data_size_bytes(self) == 4 * Len(self.data)
data_size_words(self) == data_size_bytes(self) \div 4
packet_size_bytes(self) == data_size_bytes(self) + 4
packet_size_words(self) == packet_size_bytes(self) \div 4

\* word_bitstream[low:high] of numpy: the slice is clipped to the array.
Slice(word_bitstream, low, high) ==
  SubSeq(word_bitstream, low + 1,
         IF high < Len(word_bitstream) THEN high ELSE Len(word_bitstream))

\* Packet.create_packet mutated: a TYPE2 packet takes register CRC instead of
\* the register of the previous TYPE1 packet.
create_packet_type2_crc(word_bitstream, word_ofst, packet_byte_ofst, prev_reg_addr) ==
  IF word_ofst >= Len(word_bitstream) THEN [status |-> "IndexError"]
  ELSE
    LET packet_hdr == word_bitstream[word_ofst + 1]
        hdr_tpe_int == bits(packet_hdr, PACKET_HEADER_TYPE_IDX_HIGH, PACKET_HEADER_TYPE_IDX_LOW)
        opcode == bits(packet_hdr, PACKET_OPCODE_IDX_HIGH, PACKET_OPCODE_IDX_LOW)
        reg_int == bits(packet_hdr, PACKET_TYPE_1_REGISTER_ADDRESS_IDX_HIGH,
                        PACKET_TYPE_1_REGISTER_ADDRESS_IDX_LOW)
        wc1 == bits(packet_hdr, PACKET_TYPE_1_WORD_COUNT_IDX_HIGH,
                    PACKET_TYPE_1_WORD_COUNT_IDX_LOW)
        wc2 == bits(packet_hdr, PACKET_TYPE_2_WORD_COUNT_IDX_HIGH,
                    PACKET_TYPE_2_WORD_COUNT_IDX_LOW)
    IN  IF hdr_tpe_int = TYPE1 THEN
          IF reg_int \notin RegisterValues THEN [status |-> "ValueError"]
          ELSE [status |-> "ok",
                packet |-> Packet(TYPE1, opcode, reg_int,
                                  bits(packet_hdr, PACKET_TYPE_1_RESERVED_IDX_HIGH,
                                       PACKET_TYPE_1_RESERVED_IDX_LOW),
                                  wc1, Slice(word_bitstream, word_ofst + 1, word_ofst + 1 + wc1),
                                  packet_byte_ofst)]
        ELSE IF hdr_tpe_int = TYPE2 THEN
          IF prev_reg_addr = None THEN [status |-> "AssertionError"]
          ELSE [status |-> "ok",
                packet |-> Packet(TYPE2, opcode, CRC, None, wc2,
                                  IF opcode = WRITE /\ prev_reg_addr = RSVD_30 THEN <<>>
                                  ELSE Slice(word_bitstream, word_ofst + 1, word_ofst + 1 + wc2),
                                  packet_byte_ofst)]
        ELSE [status |-> "None"]

\* Packet.create_packet mutated: a TYPE2 write after a TYPE1 packet to RSVD_30
\* takes its word_count payload words like any other TYPE2 packet.
create_packet_no_sinkhole(word_bitstream, word_ofst, packet_byte_ofst, prev_reg_addr) ==
  IF word_ofst >= Len(word_bitstream) THEN [status |-> "IndexError"]
  ELSE
    LET packet_hdr == word_bitstream[word_ofst + 1]
        hdr_tpe_int == bits(packet_hdr, PACKET_HEADER_TYPE_IDX_HIGH, PACKET_HEADER_TYPE_IDX_LOW)
        opcode == bits(packet_hdr, PACKET_OPCODE_IDX_HIGH, PACKET_OPCODE_IDX_LOW)
        reg_int == bits(packet_hdr, PACKET_TYPE_1_REGISTER_ADDRESS_IDX_HIGH,
                        PACKET_TYPE_1_REGISTER_ADDRESS_IDX_LOW)
        wc1 == bits(packet_hdr, PACKET_TYPE_1_WORD_COUNT_IDX_HIGH,
                    PACKET_TYPE_1_WORD_COUNT_IDX_LOW)
        wc2 == bits(packet_hdr, PACKET_TYPE_2_WORD_COUNT_IDX_HIGH,
                    PACKET_TYPE_2_WORD_COUNT_IDX_LOW)
    IN  IF hdr_tpe_int = TYPE1 THEN
          IF reg_int \notin RegisterValues THEN [status |-> "ValueError"]
          ELSE [status |-> "ok",
                packet |-> Packet(TYPE1, opcode, reg_int,
                                  bits(packet_hdr, PACKET_TYPE_1_RESERVED_IDX_HIGH,
                                       PACKET_TYPE_1_RESERVED_IDX_LOW),
                                  wc1, Slice(word_bitstream, word_ofst + 1, word_ofst + 1 + wc1),
                                  packet_byte_ofst)]
        ELSE IF hdr_tpe_int = TYPE2 THEN
          IF prev_reg_addr = None THEN [status |-> "AssertionError"]
          ELSE [status |-> "ok",
                packet |-> Packet(TYPE2, opcode, prev_reg_addr, None, wc2,
                                  Slice(word_bitstream, word_ofst + 1, word_ofst + 1 + wc2),
                                  packet_byte_ofst)]
        ELSE [status |-> "None"]

\* Packet.create_packet: the packet whose header is the word at word_ofst, None
\* when the word is no header, or the exception raised (IndexError past the
\* end of the array, ValueError for a register the enum has no member for,
\* AssertionError for a TYPE2 header without a previous register).
create_packet(word_bitstream, word_ofst, packet_byte_ofst, prev_reg_addr) ==
  IF word_ofst >= Len(word_bitstream) THEN [status |-> "IndexError"]
  ELSE
    LET packet_hdr == word_bitstream[word_ofst + 1]
        hdr_tpe_int == bits(packet_hdr, PACKET_HEADER_TYPE_IDX_HIGH, PACKET_HEADER_TYPE_IDX_LOW)
        is_type_1_pkt == hdr_tpe_int = TYPE1
        is_type_2_pkt == hdr_tpe_int = TYPE2
        opcode == bits(packet_hdr, PACKET_OPCODE_IDX_HIGH, PACKET_OPCODE_IDX_LOW)
    IN  IF is_type_1_pkt THEN
          LET reg_int == bits(packet_hdr, PACKET_TYPE_1_REGISTER_ADDRESS_IDX_HIGH,
                              PACKET_TYPE_1_REGISTER_ADDRESS_IDX_LOW)
              reserved == bits(packet_hdr, PACKET_TYPE_1_RESERVED_IDX_HIGH,
                               PACKET_TYPE_1_RESERVED_IDX_LOW)
              word_count == bits(packet_hdr, PACKET_TYPE_1_WORD_COUNT_IDX_HIGH,
                                 PACKET_TYPE_1_WORD_COUNT_IDX_LOW)
              data == Slice(word_bitstream, word_ofst + 1, word_ofst + 1 + word_count)
          IN  IF reg_int \notin RegisterValues THEN [status |-> "ValueError"]
              ELSE [status |-> "ok",
                    packet |-> Packet(TYPE1, opcode, reg_int, reserved, word_count,
                                      data, packet_byte_ofst)]
        ELSE IF is_type_2_pkt THEN
          LET word_count == bits(packet_hdr, PACKET_TYPE_2_WORD_COUNT_IDX_HIGH,
                                 PACKET_TYPE_2_WORD_COUNT_IDX_LOW)
              is_sinkhole_write == opcode = WRITE /\ prev_reg_addr = RSVD_30
              data == IF is_sinkhole_write THEN <<>>
                      ELSE Slice(word_bitstream, word_ofst + 1, word_ofst + 1 + word_count)
          IN  IF prev_reg_addr = None THEN [status |-> "AssertionError"]
              ELSE [status |-> "ok",
                    packet |-> Packet(TYPE2, opcode, prev_reg_addr, None, word_count,
                                      data, packet_byte_ofst)]
        ELSE [status |-> "None"]

\* packet.is_noop_pkt
is_noop_pkt(packet) == packet.opcode = NOOP

\* packet.is_reg_write_pkt
is_reg_write_pkt(packet, reg_addr) ==
  LET is_write_opcode == packet.opcode = WRITE
      is_target_reg == packet.reg_addr = reg_addr
  IN  is_write_opcode /\ is_target_reg

\* is_reg_cmd_write_pkt mutated: the word written is not compared to cmd.
is_reg_cmd_write_pkt_any_word(packet, cmd) ==
  is_reg_write_pkt(packet, CMD) /\ Len(packet.data) = 1

\* packet.is_reg_cmd_write_pkt
is_reg_cmd_write_pkt(packet, cmd) ==
  LET is_write_to_cmd == is_reg_write_pkt(packet, CMD)
      is_target_cmd == Len(packet.data) = 1 /\ packet.data[1] = SmallWord(cmd)
  IN  is_write_to_cmd /\ is_target_cmd

\* packet.is_empty_pkg
is_empty_pkg(packet) == data_size_words(packet) = 0

-----------------------------------------------------------------------------
(* Packet decoder (bitstream.py): Bitstream.__init__, __decode_all_packets  *)
(* and __decode_packets_until_next_boundary                                 *)

Min(S) == CHOOSE x \in S : \A y \in S : x <= y

\* Bitstream.__find_sync_word_ofsts: the byte offsets, aligned or not, at which
\* the 4 bytes of the sync word stand, in increasing order.
SyncOfstSet(byte_bitstream) ==
  { o \in 0..(Len(byte_bitstream) - 4) : SubSeq(byte_bitstream, o + 1, o + 4) = SYNC_WORD }

RECURSIVE SortedSeq(_)
SortedSeq(S) == IF S = {} THEN <<>> ELSE <<Min(S)>> \o SortedSeq(S \ {Min(S)})

find_sync_word_ofsts(byte_bitstream) == SortedSeq(SyncOfstSet(byte_bitstream))

\* __find_next_sync_word mutated: the offset has to be past min_byte_ofst.
find_next_sync_word_strict(sync_word_byte_ofsts, min_byte_ofst) ==
  LET candidate_sync_word_byte_ofsts ==
        { sync_word_byte_ofsts[i] : i \in { j \in 1..Len(sync_word_byte_ofsts) :
                                            min_byte_ofst < sync_word_byte_ofsts[j] } }
  IN  IF candidate_sync_word_byte_ofsts = {} THEN None
      ELSE Min(candidate_sync_word_byte_ofsts)

\* Bitstream.__find_next_sync_word: the smallest offset of the list that is at
\* least min_byte_ofst, or None.

find_next_sync_word(sync_word_byte_ofsts, min_byte_ofst) ==
  LET candidate_sync_word_byte_ofsts ==
        { sync_word_byte_ofsts[i] : i \in { j \in 1..Len(sync_word_byte_ofsts) :
                                            min_byte_ofst <= sync_word_byte_ofsts[j] } }
  IN  IF candidate_sync_word_byte_ofsts = {} THEN None
      ELSE Min(candidate_sync_word_byte_ofsts)

\* byte_bitstream[ofst:].view(">u4"): the words from a byte offset on; numpy
\* refuses the view when the bytes left are no whole number of words.
ViewRaises(byte_bitstream, ofst) == (Len(byte_bitstream) - ofst) % 4 # 0

WordView(byte_bitstream, ofst) ==
  [i \in 1..((Len(byte_bitstream) - ofst) \div 4) |->
     SubSeq(byte_bitstream, ofst + 4 * (i - 1) + 1, ofst + 4 * i)]

\* The shift mutated: the offsets are left relative.
ShiftPackets_none(packets, ofst) == packets

\* for packet in packets: packet.byte_ofst += ofst
ShiftPackets(packets, ofst) ==
  [i \in 1..Len(packets) |-> [packets[i] EXCEPT !.byte_ofst = @ + ofst]]

\* The loop body mutated: a NOOP is dropped and the loop advances by its
\* header only.
DecodeIteration_noop_header_only(r, word_ofst, current_reg_addr, packets) ==
      IF r.status = "None"
        THEN [status |-> "None", word_ofst |-> word_ofst + 1,
              current_reg_addr |-> current_reg_addr, packets |-> packets,
              boundary_found |-> FALSE]
      ELSE IF r.status = "ok"
        THEN [status |-> "ok",
              word_ofst |-> IF is_noop_pkt(r.packet) THEN word_ofst + 1
                            ELSE word_ofst + packet_size_words(r.packet),
              current_reg_addr |-> IF r.packet.hdr_tpe = TYPE1 THEN r.packet.reg_addr
                                   ELSE current_reg_addr,
              packets |-> IF ~ is_noop_pkt(r.packet) THEN Append(packets, r.packet)
                          ELSE packets,
              boundary_found |-> is_reg_cmd_write_pkt(r.packet, DESYNC),
              packet |-> r.packet]
      ELSE [status |-> r.status]

\* The loop body mutated: a word that is no packet is not stepped over.
DecodeIteration_stuck(r, word_ofst, current_reg_addr, packets) ==
      IF r.status = "None"
        THEN [status |-> "None", word_ofst |-> word_ofst,
              current_reg_addr |-> current_reg_addr, packets |-> packets,
              boundary_found |-> FALSE]
      ELSE IF r.status = "ok"
        THEN [status |-> "ok",
              word_ofst |-> word_ofst + packet_size_words(r.packet),
              current_reg_addr |-> IF r.packet.hdr_tpe = TYPE1 THEN r.packet.reg_addr
                                   ELSE current_reg_addr,
              packets |-> IF ~ is_noop_pkt(r.packet) THEN Append(packets, r.packet)
                          ELSE packets,
              boundary_found |-> is_reg_cmd_write_pkt(r.packet, DESYNC),
              packet |-> r.packet]
      ELSE [status |-> r.status]

\* The loop body of __decode_packets_until_next_boundary after create_packet
\* gave r: the loop's variables after the iteration.
DecodeIteration(r, word_ofst, current_reg_addr, packets) ==
      IF r.status = "None"
        THEN [status |-> "None", word_ofst |-> word_ofst + 1,
              current_reg_addr |-> current_reg_addr, packets |-> packets,
              boundary_found |-> FALSE]
      ELSE IF r.status = "ok"
        THEN [status |-> "ok",
              word_ofst |-> word_ofst + packet_size_words(r.packet),
              current_reg_addr |-> IF r.packet.hdr_tpe = TYPE1 THEN r.packet.reg_addr
                                   ELSE current_reg_addr,
              packets |-> IF ~ is_noop_pkt(r.packet) THEN Append(packets, r.packet)
                          ELSE packets,
              boundary_found |-> is_reg_cmd_write_pkt(r.packet, DESYNC),
              packet |-> r.packet]
      ELSE [status |-> r.status]

\* Words the buffers of the model are made of.
CMD_WRITE_1 == <<48, 0, 128, 1>>     \* 0x30008001: TYPE1 WRITE CMD, 1 word
CMD_READ_0 == <<40, 0, 128, 0>>      \* 0x28008000: TYPE1 READ CMD, 0 words
DESYNC_WORD == SmallWord(DESYNC)     \* 0x0000000d
NOOP_0 == <<32, 0, 0, 0>>            \* 0x20000000: TYPE1 NOOP, 0 words
FDRI_WRITE_1 == <<48, 0, 64, 1>>     \* 0x30004001: TYPE1 WRITE FDRI, 1 word
RSVD_30_WRITE_0 == <<48, 3, 192, 0>> \* 0x3003c000: TYPE1 WRITE RSVD_30, 0 words
TYPE2_WRITE_1 == <<80, 0, 0, 1>>     \* 0x50000001: TYPE2 WRITE, 1 word
BAD_REG_WRITE_0 == <<48, 4, 0, 0>>   \* 0x30040000: TYPE1 WRITE register 32

BoundaryWords == CMD_WRITE_1 \o DESYNC_WORD

\* Pieces a section body is drawn from.
BodyPieces ==
  { SYNC_WORD, CMD_WRITE_1, CMD_READ_0, DESYNC_WORD, NOOP_0, FDRI_WRITE_1,
    RSVD_30_WRITE_0, TYPE2_WRITE_1 \o DESYNC_WORD, BAD_REG_WRITE_0 }

\* Largest number of pieces in a section body.
MaxBody == 2

RECURSIVE Concat(_)
Concat(ss) == IF Len(ss) = 0 THEN <<>> ELSE ss[1] \o Concat(Tail(ss))

Bodies == { Concat(b) : b \in UNION { [1..k -> BodyPieces] : k \in 0..MaxBody } }

\* Buffers of two sections: bytes before the first sync word, a body, the
\* boundary packet or not, bytes between the sections, a second section.
SectionBuffers ==
  { pre \o SYNC_WORD \o body \o bnd \o gap \o tail :
      pre \in { <<>>, <<0>>, DUMMY_WORD },
      body \in Bodies,
      bnd \in { <<>>, BoundaryWords },
      gap \in { <<>>, <<0>>, FDRI_WRITE_1 },
      tail \in { <<>>, SYNC_WORD \o BoundaryWords,
                 SYNC_WORD \o TYPE2_WRITE_1 \o DESYNC_WORD,
                 SYNC_WORD \o NOOP_0 \o FDRI_WRITE_1 \o DUMMY_WORD \o BoundaryWords } }

\* Buffers probing one header word: every header type, opcode, registers in
\* and out of the enum, reserved bits and word counts.
HeaderWords ==
  { <<b0, b1, b2, b3>> :
      b0 \in { 0, 40, 48, 49, 56, 72, 96, 170, 255 },
      b1 \in { 0, 3, 4 },
      b2 \in { 0, 128, 216 },
      b3 \in { 0, 1, 2 } }

HeaderBuffers ==
  { SYNC_WORD \o h \o DESYNC_WORD \o BoundaryWords : h \in HeaderWords }

\* 0x20000001: a TYPE1 NOOP with a payload of 1 word.
NOOP_1 == <<32, 0, 0, 1>>

\* Buffers with a TYPE2 header right after a TYPE1 write to RSVD_30 or to FDRI:
\* TYPE2 writes and reads with word counts 0, 1, 2 and 7, followed or not by
\* a packet of the same section.
Type2Headers == { <<b0, 0, 0, n>> : b0 \in { 72, 80 }, n \in { 0, 1, 2, 7 } }

SinkholeBuffers ==
  { SYNC_WORD \o t1 \o t2 \o rest \o BoundaryWords :
      t1 \in { RSVD_30_WRITE_0, FDRI_WRITE_1 \o DUMMY_WORD },
      t2 \in Type2Headers,
      rest \in { <<>>, FDRI_WRITE_1 \o DUMMY_WORD, NOOP_1 \o FDRI_WRITE_1 \o DUMMY_WORD } }

\* Buffers that end inside the payload of their last packet: a TYPE1 write to
\* CMD of 2 words (0x30008002) or to FDRI of 1 word with fewer words left.
CMD_WRITE_2 == <<48, 0, 128, 2>>

TruncatedBuffers ==
  { SYNC_WORD \o pre \o last :
      pre \in { <<>>, NOOP_0, FDRI_WRITE_1 \o DUMMY_WORD },
      last \in { CMD_WRITE_2 \o DESYNC_WORD, CMD_WRITE_2, FDRI_WRITE_1 } }

\* Buffers without a sync word.
NoSyncBuffers == { <<>>, <<170, 153, 85>>, DUMMY_WORD \o BoundaryWords }

DecBuffers ==
  SectionBuffers \cup HeaderBuffers \cup SinkholeBuffers \cup TruncatedBuffers
    \cup NoSyncBuffers

\* hdr.bitstream_data_ofst: lengths of the text header before the data.
DataOfsts == { 0, 5 }

DecInit ==
  /\ dec_pc = "start"
  /\ dec_buf \in DecBuffers
  /\ dec_syncs = <<>>
  /\ dec_sync = None
  /\ dec_word_ofst = 0
  /\ dec_reg = None
  /\ dec_sub = <<>>
  /\ dec_packets = <<>>
  /\ dec_sections = <<>>
  /\ dec_last = [status |-> "none"]
  /\ dec_type1 = None
  /\ dec_data_ofst = 0

DecIdle ==
  /\ dec_pc = "idle"
  /\ dec_buf = <<>>
  /\ dec_syncs = <<>>
  /\ dec_sync = None
  /\ dec_word_ofst = 0
  /\ dec_reg = None
  /\ dec_sub = <<>>
  /\ dec_packets = <<>>
  /\ dec_sections = <<>>
  /\ dec_last = [status |-> "none"]
  /\ dec_type1 = None
  /\ dec_data_ofst = 0

\* Buffers on which the decoder is run to its end: sections with and without
\* their DESYNC command, followed or not by a second section, and the buffers
\* with sinkhole packets, truncated packets and no sync word.
LiveBuffers ==
  { SYNC_WORD \o body \o bnd \o tail :
      body \in { <<>>, DUMMY_WORD, NOOP_1 \o DUMMY_WORD, FDRI_WRITE_1 \o SYNC_WORD,
                 BAD_REG_WRITE_0, TYPE2_WRITE_1 \o DESYNC_WORD },
      bnd \in { <<>>, BoundaryWords },
      tail \in { <<>>, <<0>>, SYNC_WORD \o BoundaryWords,
                 SYNC_WORD \o NOOP_0 \o FDRI_WRITE_1 \o DUMMY_WORD } }
  \cup SinkholeBuffers \cup TruncatedBuffers \cup NoSyncBuffers

DecLiveInit ==
  /\ dec_pc = "start"
  /\ dec_buf \in LiveBuffers
  /\ dec_syncs = <<>>
  /\ dec_sync = None
  /\ dec_word_ofst = 0
  /\ dec_reg = None
  /\ dec_sub = <<>>
  /\ dec_packets = <<>>
  /\ dec_sections = <<>>
  /\ dec_last = [status |-> "none"]
  /\ dec_type1 = None
  /\ dec_data_ofst = 0

\* __decode_all_packets up to the loop: the sync words are found and the first
\* one is taken.
DecStart ==
  /\ dec_pc = "start"
  /\ Len(dec_buf) >= 4
  /\ Len(find_sync_word_ofsts(dec_buf)) > 0
  /\ dec_syncs' = find_sync_word_ofsts(dec_buf)
  /\ dec_sync' = find_sync_word_ofsts(dec_buf)[1]
  /\ dec_pc' = "view"
  /\ UNCHANGED <<dec_buf, dec_word_ofst, dec_reg, dec_sub, dec_packets, dec_sections,
                 dec_last, dec_type1, dec_data_ofst>>
  /\ UNCHANGED notDecVars

\* The same when it raises: a buffer shorter than the sliding window, or no
\* sync word.
DecStartRaises ==
  /\ dec_pc = "start"
  /\ \/ Len(dec_buf) < 4 /\ dec_pc' = "ValueError"
     \/ Len(dec_buf) >= 4 /\ Len(find_sync_word_ofsts(dec_buf)) = 0
        /\ dec_pc' = "AssertionError"
  /\ UNCHANGED <<dec_buf, dec_syncs, dec_sync, dec_word_ofst, dec_reg, dec_sub,
                 dec_packets, dec_sections, dec_last, dec_type1, dec_data_ofst>>
  /\ UNCHANGED notDecVars

\* Start of a section: the word view from the current sync word, and the
\* locals of __decode_packets_until_next_boundary.
DecView ==
  /\ dec_pc = "view"
  /\ IF ViewRaises(dec_buf, dec_sync)
       THEN dec_pc' = "ValueError" /\ UNCHANGED dec_sections
       ELSE /\ dec_pc' = "loop"
            /\ dec_sections' = Append(dec_sections,
                                      [sync |-> dec_sync, first |-> Len(dec_packets) + 1])
  /\ dec_word_ofst' = 0
  /\ dec_reg' = None
  /\ dec_sub' = <<>>
  /\ UNCHANGED <<dec_buf, dec_syncs, dec_sync, dec_packets, dec_last, dec_type1,
                 dec_data_ofst>>
  /\ UNCHANGED notDecVars

\* The word the loop is at, <<>> past the end of the view.
HeaderAt(byte_bitstream, sync, word_ofst) ==
  IF word_ofst < Len(WordView(byte_bitstream, sync))
  THEN WordView(byte_bitstream, sync)[word_ofst + 1] ELSE <<>>

\* One iteration of the decoding loop over a word that is no packet header.
DecSkip ==
  /\ dec_pc = "loop"
  /\ \E r \in {create_packet(WordView(dec_buf, dec_sync), dec_word_ofst,
                              dec_word_ofst * 4, dec_reg)} :
     \E it \in {DecodeIteration(r, dec_word_ofst, dec_reg, dec_sub)} :
         /\ it.status = "None"
         /\ dec_word_ofst' = it.word_ofst
         /\ dec_last' = [status |-> "None", sync |-> dec_sync, word_ofst |-> dec_word_ofst,
                         hdr |-> HeaderAt(dec_buf, dec_sync, dec_word_ofst),
                         type1 |-> dec_type1]
  /\ UNCHANGED <<dec_pc, dec_buf, dec_syncs, dec_sync, dec_reg, dec_sub, dec_packets,
                 dec_sections, dec_type1, dec_data_ofst>>
  /\ UNCHANGED notDecVars

\* One iteration of the decoding loop over a packet.
DecPacket ==
  /\ dec_pc = "loop"
  /\ \E r \in {create_packet(WordView(dec_buf, dec_sync), dec_word_ofst,
                              dec_word_ofst * 4, dec_reg)} :
     \E it \in {DecodeIteration(r, dec_word_ofst, dec_reg, dec_sub)} :
         /\ it.status = "ok"
         /\ dec_word_ofst' = it.word_ofst
         /\ dec_reg' = it.current_reg_addr
         /\ dec_sub' = it.packets
         /\ dec_pc' = IF it.boundary_found THEN "boundary" ELSE "loop"
         /\ dec_type1' = IF it.packet.hdr_tpe = TYPE1 THEN it.packet.reg_addr ELSE dec_type1
         /\ dec_last' = [status |-> "ok", sync |-> dec_sync, word_ofst |-> dec_word_ofst,
                         hdr |-> HeaderAt(dec_buf, dec_sync, dec_word_ofst),
                         type1 |-> dec_type1, packet |-> it.packet]
  /\ UNCHANGED <<dec_buf, dec_syncs, dec_sync, dec_packets, dec_sections, dec_data_ofst>>
  /\ UNCHANGED notDecVars

\* One iteration of the decoding loop in which create_packet raises; nothing
\* catches the exception.
DecRaises ==
  /\ dec_pc = "loop"
  /\ \E r \in {create_packet(WordView(dec_buf, dec_sync), dec_word_ofst,
                              dec_word_ofst * 4, dec_reg)} :
     \E it \in {DecodeIteration(r, dec_word_ofst, dec_reg, dec_sub)} :
         /\ it.status \notin {"None", "ok"}
         /\ dec_pc' = it.status
         /\ dec_last' = [status |-> it.status, sync |-> dec_sync, word_ofst |-> dec_word_ofst,
                         hdr |-> HeaderAt(dec_buf, dec_sync, dec_word_ofst),
                         type1 |-> dec_type1]
  /\ UNCHANGED <<dec_buf, dec_syncs, dec_sync, dec_word_ofst, dec_reg, dec_sub,
                 dec_packets, dec_sections, dec_type1, dec_data_ofst>>
  /\ UNCHANGED notDecVars

\* After a section: the offsets of its packets are made relative to the
\* buffer, the packets are kept, and the next sync word is looked for from the
\* end of the boundary packet.
AfterSection(sub_packets, current_sync_word_byte_ofst, all_sync_word_byte_ofsts) ==
  LET shifted == ShiftPackets(sub_packets, current_sync_word_byte_ofst)
      boundary_pkt == shifted[Len(shifted)]
      after_boundary_byte_ofst == boundary_pkt.byte_ofst + packet_size_bytes(boundary_pkt)
  IN  [sub_packets |-> shifted,
       after_boundary_byte_ofst |-> after_boundary_byte_ofst,
       next |-> find_next_sync_word(all_sync_word_byte_ofsts, after_boundary_byte_ofst)]

\* End of a section that another sync word follows.
DecSectionEnd ==
  /\ dec_pc = "boundary"
  /\ \E a \in {AfterSection(dec_sub, dec_sync, dec_syncs)} :
         /\ a.next # None
         /\ dec_packets' = dec_packets \o a.sub_packets
         /\ dec_sync' = a.next
         /\ dec_sections' = [dec_sections EXCEPT ![Len(dec_sections)] =
                               [sync |-> @.sync, first |-> @.first,
                                after |-> a.after_boundary_byte_ofst]]
  /\ dec_pc' = "view"
  /\ UNCHANGED <<dec_buf, dec_syncs, dec_word_ofst, dec_reg, dec_sub, dec_last,
                 dec_type1, dec_data_ofst>>
  /\ UNCHANGED notDecVars

\* End of the last section: __decode_all_packets returns and Bitstream.__init__
\* makes the offsets of the packets absolute.
DecReturn ==
  /\ dec_pc = "boundary"
  /\ \E a \in {AfterSection(dec_sub, dec_sync, dec_syncs)} :
         /\ a.next = None
         /\ \E ofst \in DataOfsts :
              /\ dec_data_ofst' = ofst
              /\ dec_packets' = ShiftPackets(dec_packets \o a.sub_packets, ofst)
         /\ dec_sections' = [dec_sections EXCEPT ![Len(dec_sections)] =
                               [sync |-> @.sync, first |-> @.first,
                                after |-> a.after_boundary_byte_ofst]]
  /\ dec_pc' = "done"
  /\ UNCHANGED <<dec_buf, dec_syncs, dec_sync, dec_word_ofst, dec_reg, dec_sub,
                 dec_last, dec_type1>>
  /\ UNCHANGED notDecVars

DecNext ==
  \/ DecStart \/ DecStartRaises \/ DecView \/ DecSkip \/ DecPacket \/ DecRaises
  \/ DecSectionEnd \/ DecReturn

-----------------------------------------------------------------------------
(* Frame extraction (bitstream.py): is_per_frame_crc,                       *)
(* get_raw_configuration_arrays and get_per_far_configuration_arrays        *)

\* Words of a frame, scaled down from the 123 words of UltraScale and the 93
\* words of UltraScale+.
FrameWordsUltraScale == 2
FrameWordsUltraScalePlus == 1

\* ArchSpec.frame_size_words
frame_size_words(spec) ==
  IF spec = ULTRASCALE THEN FrameWordsUltraScale ELSE FrameWordsUltraScalePlus

\* Indices of the packets that write a register, in increasing order.
WriteIdx(packets, reg_addr) ==
  { idx \in 1..Len(packets) : is_reg_write_pkt(packets[idx], reg_addr) }

\* Bitstream.is_per_frame_crc: False when a write to FDRI is not one frame;
\* otherwise every write to FDRI has to be followed by a write to CRC before
\* the next write to FDRI. The pairs of FDRI writes come from
\* more_itertools.windowed: with one FDRI write the pair is (idx, None) and
\* the comparison raises TypeError; with none the loop variable is unbound
\* (UnboundLocalError) or, in older versions of the library, None (TypeError).
is_per_frame_crc(packets, spec) ==
  LET fdri_packets_idx == WriteIdx(packets, FDRI)
      crc_packets_idx == WriteIdx(packets, CRC)
      followed(f) == \E c \in crc_packets_idx :
                       /\ c > f
                       /\ \A g \in fdri_packets_idx : ~ (f < g /\ g < c)
  IN  IF \E f \in fdri_packets_idx :
           data_size_words(packets[f]) # frame_size_words(spec)
        THEN [status |-> "ok", value |-> FALSE]
      ELSE IF Cardinality(fdri_packets_idx) = 0
        THEN [status |-> "raises", kinds |-> {"UnboundLocalError", "TypeError"}]
      ELSE IF Cardinality(fdri_packets_idx) = 1
        THEN [status |-> "raises", kinds |-> {"TypeError"}]
      ELSE [status |-> "ok", value |-> \A f \in fdri_packets_idx : followed(f)]

\* The append mutated: the entry is put before the ones recorded under the
\* FAR.
DictAppendFar_prepend(fars, far, entry) ==
  IF \E j \in 1..Len(fars) : FarEq(fars[j].far, far)
  THEN [j \in 1..Len(fars) |->
          IF FarEq(fars[j].far, far)
          THEN [fars[j] EXCEPT !.entries = <<entry>> \o @] ELSE fars[j]]
  ELSE Append(fars, [far |-> far, entries |-> <<entry>>])

\* idcode_far_configArrays[current_idcode][current_far].append(entry): the
\* dict of dicts of lists, every level in insertion order; FARs are keys by
\* FrameAddressRegister.__eq__.
DictAppendFar(fars, far, entry) ==
  IF \E j \in 1..Len(fars) : FarEq(fars[j].far, far)
  THEN [j \in 1..Len(fars) |->
          IF FarEq(fars[j].far, far)
          THEN [fars[j] EXCEPT !.entries = Append(@, entry)] ELSE fars[j]]
  ELSE Append(fars, [far |-> far, entries |-> <<entry>>])

DictAppend(raw, idcode, far, entry) ==
  IF \E i \in 1..Len(raw) : raw[i].idcode = idcode
  THEN [i \in 1..Len(raw) |->
          IF raw[i].idcode = idcode
          THEN [raw[i] EXCEPT !.fars = DictAppendFar(@, far, entry)] ELSE raw[i]]
  ELSE Append(raw, [idcode |-> idcode, fars |-> DictAppendFar(<<>>, far, entry)])

\* The loop of get_raw_configuration_arrays over the packets from index k on.
RECURSIVE RawWalk(_, _, _, _, _, _)
RawWalk(packets, k, current_idcode, current_far, raw, spec) ==
  IF k > Len(packets) THEN [status |-> "ok", raw |-> raw]
  ELSE
    LET packet == packets[k]
    IN  IF is_reg_write_pkt(packet, IDCODE) THEN
          IF Len(packet.data) = 0 THEN [status |-> "IndexError"]
          ELSE RawWalk(packets, k + 1, <<packet.data[1]>>, current_far, raw, spec)
        ELSE IF is_reg_write_pkt(packet, FAR) THEN
          IF Len(packet.data) = 0 THEN [status |-> "IndexError"]
          ELSE RawWalk(packets, k + 1, current_idcode,
                       <<from_int(packet.data[1], spec)>>, raw, spec)
        ELSE IF is_reg_write_pkt(packet, FDRI) /\ ~ is_empty_pkg(packet) THEN
          IF current_idcode = <<>> \/ current_far = <<>>
            THEN [status |-> "AssertionError"]
          ELSE IF Len(packet.data) % frame_size_words(spec) # 0
            THEN [status |-> "AssertionError"]
          ELSE RawWalk(packets, k + 1, current_idcode, current_far,
                       DictAppend(raw, current_idcode[1], current_far[1],
                                 [byte_ofst |-> packet.byte_ofst + 4,
                                  words |-> packet.data]),
                       spec)
        ELSE RawWalk(packets, k + 1, current_idcode, current_far, raw, spec)

\* get_raw_configuration_arrays mutated: a write to FDRI takes the place of
\* what was recorded under its IDCODE and FAR.
get_raw_last_write_only(packets, compressed, spec) ==
  LET r == RawWalk(packets, 1, <<>>, <<>>, <<>>, spec)
      keep(fars) == [j \in 1..Len(fars) |->
                       [fars[j] EXCEPT !.entries = <<@[Len(@)]>>]]
  IN  IF compressed THEN [status |-> "AssertionError"]
      ELSE IF is_per_frame_crc(packets, spec).status # "ok"
        THEN [status |-> "raises", kinds |-> is_per_frame_crc(packets, spec).kinds]
      ELSE IF is_per_frame_crc(packets, spec).value THEN [status |-> "AssertionError"]
      ELSE IF r.status # "ok" THEN r
      ELSE [status |-> "ok",
            raw |-> [i \in 1..Len(r.raw) |-> [r.raw[i] EXCEPT !.fars = keep(@)]]]

\* Bitstream.get_raw_configuration_arrays: the recorded FDRI payloads, or the
\* exception raised. current_idcode and current_far are None (<<>>) at first.
get_raw_configuration_arrays(packets, compressed, spec) ==
  IF compressed THEN [status |-> "AssertionError"]
  ELSE IF is_per_frame_crc(packets, spec).status # "ok"
    THEN [status |-> "raises", kinds |-> is_per_frame_crc(packets, spec).kinds]
  ELSE IF is_per_frame_crc(packets, spec).value THEN [status |-> "AssertionError"]
  ELSE RawWalk(packets, 1, <<>>, <<>>, <<>>, spec)

\* The (idcode, far, byte_ofst, words) entries of the raw arrays in the order
\* the three nested loops of get_per_far_configuration_arrays visit them.
RECURSIVE FarEntries(_, _)
FarEntries(idcode, fars) ==
  IF Len(fars) = 0 THEN <<>>
  ELSE [e \in 1..Len(fars[1].entries) |->
          [idcode |-> idcode, far |-> fars[1].far,
           base_byte_ofst |-> fars[1].entries[e].byte_ofst,
           config_array |-> fars[1].entries[e].words]]
       \o FarEntries(idcode, Tail(fars))

RECURSIVE RawEntries(_)
RawEntries(raw) ==
  IF Len(raw) = 0 THEN <<>>
  ELSE FarEntries(raw[1].idcode, raw[1].fars) \o RawEntries(Tail(raw))

\* bitstream_spec.NUM_END_OF_ROW_PADDING_FRAMES
NUM_END_OF_ROW_PADDING_FRAMES == 2

ZERO_WORD == <<0, 0, 0, 0>>

\* config_array.reshape(-1, frame_size_words): the frames of a payload.
Reshape(config_array, size) ==
  [i \in 1..(Len(config_array) \div size) |->
     SubSeq(config_array, (i - 1) * size + 1, i * size)]

\* ConfigFrame.__init__
ConfigFrame(byte_ofst, words, far, spec) ==
  [byte_ofst |-> byte_ofst, words |-> words, far |-> far, spec |-> spec]

\* not np.any(frame)
frame_is_zero(frame) == \A i \in 1..Len(frame) : frame[i] = ZERO_WORD

\* The padding loop mutated: the frames are skipped without being looked at.
SkipPadding_unchecked(singleframes, singleframes_idx, n) ==
  IF singleframes_idx + n > Len(singleframes) THEN [status |-> "IndexError"]
  ELSE [status |-> "ok", singleframes_idx |-> singleframes_idx + n]

\* The loop over the end-of-row padding frames: n more frames are read, each
\* has to exist and to be all-zero.
RECURSIVE SkipPadding(_, _, _)
SkipPadding(singleframes, singleframes_idx, n) ==
  IF n = 0 THEN [status |-> "ok", singleframes_idx |-> singleframes_idx]
  ELSE IF singleframes_idx >= Len(singleframes) THEN [status |-> "IndexError"]
  ELSE IF ~ frame_is_zero(singleframes[singleframes_idx + 1])
    THEN [status |-> "AssertionError"]
  ELSE SkipPadding(singleframes, singleframes_idx + 1, n - 1)

\* One iteration of the while loop of get_per_far_configuration_arrays: the
\* frame at singleframes_idx is emitted under far, the padding frames are
\* skipped after the last FAR of a row, and far is incremented.
FrameIteration(std, bram, idcode, far, singleframes, singleframes_idx, base_byte_ofst, spec) ==
  LET frame == singleframes[singleframes_idx + 1]
      frame_byte_ofst == base_byte_ofst + singleframes_idx * frame_size_words(spec) * 4
      config_frame == ConfigFrame(frame_byte_ofst, frame, far, spec)
      l == is_last_far_of_row(std, bram, idcode, far)
      s == IF l.last
           THEN SkipPadding(singleframes, singleframes_idx + 1, NUM_END_OF_ROW_PADDING_FRAMES)
           ELSE [status |-> "ok", singleframes_idx |-> singleframes_idx + 1]
      n == increment(l.std, l.bram, idcode, far)
  IN  IF l.status # "ok" THEN [status |-> l.status]
      ELSE IF s.status # "ok" THEN [status |-> s.status]
      ELSE IF n.status # "ok" THEN [status |-> n.status]
      ELSE [status |-> "ok", config_frame |-> config_frame,
            singleframes_idx |-> s.singleframes_idx, far |-> n.far,
            std |-> n.std, bram |-> n.bram]

\* The word of a FAR, as a write to the FAR register carries it.
FarWord(far) ==
  LET b == to_bin(far)
  IN  <<BinToNat(SubSeq(b, 1, 8)), BinToNat(SubSeq(b, 9, 16)),
        BinToNat(SubSeq(b, 17, 24)), BinToNat(SubSeq(b, 25, 32))>>

\* A TYPE1 WRITE packet to a register, its offset still to be set.
WritePacket(reg_addr, data) == Packet(TYPE1, WRITE, reg_addr, 0, Len(data), data, 0)

\* The packets laid one after the other from a byte offset on, as the decoder
\* finds them.
RECURSIVE PlacePackets(_, _)
PlacePackets(packets, byte_ofst) ==
  IF Len(packets) = 0 THEN <<>>
  ELSE <<[packets[1] EXCEPT !.byte_ofst = byte_ofst]>>
       \o PlacePackets(Tail(packets), byte_ofst + packet_size_bytes(packets[1]))

\* Largest number of frames in the first FDRI payload of a bitstream.
MaxFrames == 5

\* A frame of the model: all-zero, or zero but for its last word.
ModelFrame(kind, size) ==
  [i \in 1..size |-> IF kind = 0 \/ i < size THEN ZERO_WORD ELSE <<0, 0, 0, kind>>]

\* Payloads of up to MaxFrames frames, each zero or not.
RECURSIVE FramesOf(_, _)
FramesOf(kinds, size) ==
  IF Len(kinds) = 0 THEN <<>>
  ELSE ModelFrame(kinds[1], size) \o FramesOf(Tail(kinds), size)

Payloads(size) ==
  { FramesOf(kinds, size) : kinds \in UNION { [1..k -> {0, 1}] : k \in 0..MaxFrames } }
  \cup { <<ZERO_WORD>> \o ModelFrame(1, size) }

SecondPayloads(size) ==
  { FramesOf(kinds, size) : kinds \in { <<2>>, <<2, 2>>, <<2, 0, 0>> } }

\* The device the bitstreams are for, and FARs written to the FAR register:
\* the first of a row, the last of a row, the last of the device, one with
\* reserved bits, one past the columns of its row.
ExtDevice == DevSmall

ExtFars ==
  { FrameAddressRegister(0, CLB_IO_CLK, 0, 0, 0, ULTRASCALE),
    FrameAddressRegister(0, CLB_IO_CLK, 0, 1, 0, ULTRASCALE),
    FrameAddressRegister(0, BRAM_CONTENT, 1, 1, 0, ULTRASCALE),
    FrameAddressRegister(1, CLB_IO_CLK, 1, 1, 1, ULTRASCALE),
    FrameAddressRegister(0, CLB_IO_CLK, 0, 5, 0, ULTRASCALE) }

SecondFars ==
  { FrameAddressRegister(0, CLB_IO_CLK, 0, 0, 0, ULTRASCALE),
    FrameAddressRegister(0, CLB_IO_CLK, 0, 1, 0, ULTRASCALE) }

\* Packet lists of a bitstream: an IDCODE write or none, a FAR write, an FDRI
\* write, then nothing, or more writes, and the DESYNC command.
ExtHeads ==
  { <<>> } \cup { <<WritePacket(IDCODE, <<idcode>>)>> :
                  idcode \in {IdcodeA, IdcodeB, IdcodeUnknown} }

ExtMiddles(size) ==
  { <<>> }
  \cup { <<WritePacket(FDRI, p)>> : p \in SecondPayloads(size) }
  \cup { <<WritePacket(FAR, <<FarWord(f)>>), WritePacket(FDRI, p)>> :
         f \in SecondFars, p \in SecondPayloads(size) }
  \cup { <<WritePacket(IDCODE, <<IdcodeB>>), WritePacket(FAR, <<FarWord(f)>>),
           WritePacket(FDRI, p)>> :
         f \in SecondFars, p \in {FramesOf(<<2>>, size)} }
  \cup { <<WritePacket(CRC, <<ZERO_WORD>>), WritePacket(FDRI, FramesOf(<<2>>, size)),
           WritePacket(CRC, <<ZERO_WORD>>)>> }

ExtPacketLists ==
  { PlacePackets(head \o <<WritePacket(FAR, <<FarWord(f)>>), WritePacket(FDRI, p)>>
                 \o mid \o <<WritePacket(CMD, <<DESYNC_WORD>>)>>, 4) :
      head \in ExtHeads, f \in ExtFars,
      p \in Payloads(frame_size_words(ExtDevice.arch)),
      mid \in ExtMiddles(frame_size_words(ExtDevice.arch)) }
  \cup { PlacePackets(<<WritePacket(CMD, <<DESYNC_WORD>>)>>, 4) }

\* far of get_per_far_configuration_arrays before the loops bind it.
NoFar == [none |-> TRUE]

\* A lazily computed property that is still None.
NoCache == [set |-> FALSE]

\* Largest number of calls of get_per_far_configuration_arrays on a Bitstream.
MaxCalls == 2

ExtInit ==
  /\ ext_pc = "parsed"
  /\ ext_dev = ExtDevice
  /\ ext_packets \in ExtPacketLists
  /\ ext_compressed \in BOOLEAN
  /\ ext_compressed => Len(ext_packets) <= 3
  /\ ext_encrypted \in BOOLEAN
  /\ ext_encrypted => ~ ext_compressed /\ Len(ext_packets) <= 4
  /\ ext_raw_set = FALSE
  /\ ext_cache = NoCache
  /\ ext_pfc = NoCache
  /\ ext_calls = <<>>
  /\ ext_raw = <<>>
  /\ ext_std = EmptyDict
  /\ ext_bram = EmptyDict
  /\ ext_entries = 0
  /\ ext_idx = 0
  /\ ext_far = NoFar
  /\ ext_frames = <<>>
  /\ ext_last = [status |-> "none"]

ExtIdle ==
  /\ ext_pc = "idle"
  /\ ext_dev = NoValue
  /\ ext_packets = <<>>
  /\ ext_compressed = FALSE
  /\ ext_encrypted = FALSE
  /\ ext_raw_set = FALSE
  /\ ext_cache = NoCache
  /\ ext_pfc = NoCache
  /\ ext_calls = <<>>
  /\ ext_raw = <<>>
  /\ ext_std = EmptyDict
  /\ ext_bram = EmptyDict
  /\ ext_entries = 0
  /\ ext_idx = 0
  /\ ext_far = NoFar
  /\ ext_frames = <<>>
  /\ ext_last = [status |-> "none"]

\* is_per_frame_crc() on a Bitstream whose _is_per_frame_crc is pfc: the
\* value kept from an earlier call, or the one computed now.
PerFrameCrcCall(pfc, packets, spec) ==
  IF pfc.set THEN [status |-> "ok", value |-> pfc.value]
  ELSE is_per_frame_crc(packets, spec)

\* get_raw_configuration_arrays() mutated: a second call finds the raw view
\* set but empty.
GetRawCall_emptied(raw_set, raw, pfc, packets, compressed, spec) ==
  IF ~ pfc.set THEN get_raw_configuration_arrays(packets, compressed, spec)
  ELSE IF compressed THEN [status |-> "AssertionError"]
  ELSE IF pfc.value THEN [status |-> "AssertionError"]
  ELSE IF raw_set THEN [status |-> "ok", raw |-> <<>>]
  ELSE RawWalk(packets, 1, <<>>, <<>>, <<>>, spec)

\* get_raw_configuration_arrays() on a Bitstream with these lazy properties:
\* the two assertions are made on every call, the arrays are computed on the
\* first call that gets past them and kept.
GetRawCall(raw_set, raw, pfc, packets, compressed, spec) ==
  IF ~ pfc.set THEN get_raw_configuration_arrays(packets, compressed, spec)
  ELSE IF compressed THEN [status |-> "AssertionError"]
  ELSE IF pfc.value THEN [status |-> "AssertionError"]
  ELSE IF raw_set THEN [status |-> "ok", raw |-> raw]
  ELSE RawWalk(packets, 1, <<>>, <<>>, <<>>, spec)

\* _is_per_frame_crc after that call: is_per_frame_crc is reached when the
\* bitstream is not compressed and keeps the value it returns.
PfcAfterCall(pfc, packets, compressed, spec) ==
  IF pfc.set \/ compressed THEN pfc
  ELSE IF is_per_frame_crc(packets, spec).status = "ok"
    THEN [set |-> TRUE, value |-> is_per_frame_crc(packets, spec).value]
  ELSE pfc

\* get_per_far_configuration_arrays up to its loops: the incrementer is
\* constructed and get_raw_configuration_arrays returns.
ExtGetRaw ==
  /\ ext_pc = "parsed"
  /\ ~ ext_cache.set
  /\ \E r \in {GetRawCall(ext_raw_set, ext_raw, ext_pfc, ext_packets, ext_compressed,
                            ext_dev.arch)} :
       /\ r.status = "ok"
       /\ ext_raw' = r.raw
  /\ ext_raw_set' = TRUE
  /\ ext_pfc' = PfcAfterCall(ext_pfc, ext_packets, ext_compressed, ext_dev.arch)
  /\ UNCHANGED ext_calls
  /\ ext_std' = IncTable(ext_dev, "std")
  /\ ext_bram' = IncTable(ext_dev, "bram")
  /\ ext_pc' = "entries"
  /\ UNCHANGED <<ext_dev, ext_packets, ext_compressed, ext_entries, ext_idx, ext_far,
                 ext_frames, ext_last, ext_encrypted, ext_cache>>
  /\ UNCHANGED notExtVars

\* The same when get_raw_configuration_arrays raises.
ExtGetRawRaises ==
  /\ ext_pc = "parsed"
  /\ ~ ext_cache.set
  /\ \E r \in {GetRawCall(ext_raw_set, ext_raw, ext_pfc, ext_packets, ext_compressed,
                            ext_dev.arch)} :
       /\ r.status # "ok"
       /\ ext_pc' \in (IF r.status = "raises" THEN r.kinds ELSE {r.status})
  /\ ext_pfc' = PfcAfterCall(ext_pfc, ext_packets, ext_compressed, ext_dev.arch)
  /\ UNCHANGED ext_calls
  /\ ext_std' = IncTable(ext_dev, "std")
  /\ ext_bram' = IncTable(ext_dev, "bram")
  /\ UNCHANGED <<ext_dev, ext_packets, ext_compressed, ext_raw, ext_entries, ext_idx,
                 ext_far, ext_frames, ext_last, ext_encrypted, ext_raw_set, ext_cache>>
  /\ UNCHANGED notExtVars

\* get_per_far_configuration_arrays on a Bitstream that kept the frames of an
\* earlier call: they are returned as they are.
ExtCached ==
  /\ ext_pc = "parsed"
  /\ ext_cache.set
  /\ ext_frames' = ext_cache.frames
  /\ UNCHANGED ext_calls
  /\ ext_pc' = "done"
  /\ UNCHANGED <<ext_dev, ext_packets, ext_compressed, ext_raw, ext_std, ext_bram,
                 ext_entries, ext_idx, ext_far, ext_last, ext_encrypted, ext_raw_set,
                 ext_cache, ext_pfc>>
  /\ UNCHANGED notExtVars

\* The loops reach the next recorded payload: far is its base FAR.
ExtEntry ==
  /\ ext_pc = "entries"
  /\ ext_entries < Len(RawEntries(ext_raw))
  /\ ext_entries' = ext_entries + 1
  /\ ext_far' = RawEntries(ext_raw)[ext_entries + 1].far
  /\ ext_idx' = 0
  /\ ext_pc' = "frames"
  /\ UNCHANGED <<ext_dev, ext_packets, ext_compressed, ext_raw, ext_std, ext_bram,
                 ext_frames, ext_last>>
  /\ UNCHANGED extCaches
  /\ UNCHANGED notExtVars

\* One iteration of the while loop over the frames of the payload.
ExtFrame ==
  /\ ext_pc = "frames"
  /\ \E e \in {RawEntries(ext_raw)[ext_entries]} :
     \E it \in {FrameIteration(ext_std, ext_bram, e.idcode, ext_far,
                               Reshape(e.config_array, frame_size_words(ext_dev.arch)),
                               ext_idx, e.base_byte_ofst, ext_dev.arch)} :
       /\ it.status = "ok"
       /\ ext_frames' = DictAppend(ext_frames, e.idcode, it.config_frame.far,
                                   it.config_frame)
       /\ ext_idx' = it.singleframes_idx
       /\ ext_far' = it.far
       /\ ext_std' = it.std
       /\ ext_bram' = it.bram
       /\ ext_pc' = IF it.singleframes_idx
                       < Len(Reshape(e.config_array, frame_size_words(ext_dev.arch)))
                    THEN "frames" ELSE "entries"
       /\ ext_last' = [status |-> "ok", entry |-> e, singleframes_idx |-> ext_idx,
                       config_frame |-> it.config_frame]
  /\ UNCHANGED <<ext_dev, ext_packets, ext_compressed, ext_raw, ext_entries>>
  /\ UNCHANGED extCaches
  /\ UNCHANGED notExtVars

\* An iteration that raises: a FAR outside the tables, a padding frame that
\* is missing or not zero.
ExtFrameRaises ==
  /\ ext_pc = "frames"
  /\ \E e \in {RawEntries(ext_raw)[ext_entries]} :
     \E it \in {FrameIteration(ext_std, ext_bram, e.idcode, ext_far,
                               Reshape(e.config_array, frame_size_words(ext_dev.arch)),
                               ext_idx, e.base_byte_ofst, ext_dev.arch)} :
       /\ it.status # "ok"
       /\ ext_pc' = it.status
       /\ ext_last' = [status |-> it.status, entry |-> e, singleframes_idx |-> ext_idx]
  /\ UNCHANGED <<ext_dev, ext_packets, ext_compressed, ext_raw, ext_std, ext_bram,
                 ext_entries, ext_idx, ext_far, ext_frames>>
  /\ UNCHANGED extCaches
  /\ UNCHANGED notExtVars

\* The loops are over: get_per_far_configuration_arrays returns the frames.
ExtReturn ==
  /\ ext_pc = "entries"
  /\ ext_entries = Len(RawEntries(ext_raw))
  /\ ext_cache' = [set |-> TRUE, frames |-> ext_frames]
  /\ ext_pc' = "done"
  /\ UNCHANGED <<ext_dev, ext_packets, ext_compressed, ext_raw, ext_std, ext_bram,
                 ext_entries, ext_idx, ext_far, ext_frames, ext_last, ext_encrypted,
                 ext_raw_set, ext_pfc, ext_calls>>
  /\ UNCHANGED notExtVars

\* The caller asks for the frames again after a call that returned or
\* raised: the locals of the call are new, the Bitstream is the same.
ExtCallAgain ==
  /\ ext_pc \notin {"idle", "parsed", "entries", "frames"}
  /\ Len(ext_calls) + 1 < MaxCalls
  /\ ext_calls' = Append(ext_calls, ext_pc)
  /\ ext_pc' = "parsed"
  /\ ext_entries' = 0
  /\ ext_idx' = 0
  /\ ext_far' = NoFar
  /\ ext_frames' = <<>>
  /\ ext_last' = [status |-> "again", pc |-> ext_pc, frames |-> ext_frames]
  /\ UNCHANGED <<ext_dev, ext_packets, ext_compressed, ext_raw, ext_std, ext_bram,
                 ext_encrypted, ext_raw_set, ext_cache, ext_pfc>>
  /\ UNCHANGED notExtVars

ExtNext ==
  \/ ExtGetRaw \/ ExtGetRawRaises \/ ExtEntry \/ ExtFrame \/ ExtFrameRaises
  \/ ExtReturn

\* Bitstreams on which the frames are asked for more than once: the packet
\* lists with one FDRI write.
CallPacketLists == { pl \in ExtPacketLists : Len(pl) <= 4 }

CallsInit ==
  /\ ext_pc = "parsed"
  /\ ext_dev = ExtDevice
  /\ ext_packets \in CallPacketLists
  /\ ext_compressed \in BOOLEAN
  /\ ext_encrypted = FALSE
  /\ ext_raw = <<>>
  /\ ext_std = EmptyDict
  /\ ext_bram = EmptyDict
  /\ ext_entries = 0
  /\ ext_idx = 0
  /\ ext_far = NoFar
  /\ ext_frames = <<>>
  /\ ext_last = [status |-> "none"]
  /\ ext_raw_set = FALSE
  /\ ext_cache = NoCache
  /\ ext_pfc = NoCache
  /\ ext_calls = <<>>

CallsNext == ExtNext \/ ExtCached \/ ExtCallAgain

-----------------------------------------------------------------------------
(* A parsed Bitstream (bitstream.py): Bitstream.__init__ decodes the       *)
(* packets of a file, then the configuration arrays are asked for           *)

\* The header word of a TYPE1 WRITE packet to a register with a word count
\* under 256, and the words of such a packet in the file.
Type1WriteHeader(reg_addr, word_count) ==
  <<48, (reg_addr * 32) \div 256, (reg_addr * 32) % 256, word_count>>

WriteWords(reg_addr, data) == <<Type1WriteHeader(reg_addr, Len(data))>> \o data

\* The bytes of a sequence of words.
RECURSIVE BytesOf(_)
BytesOf(words) == IF Len(words) = 0 THEN <<>> ELSE words[1] \o BytesOf(Tail(words))

\* FDRI payloads of the files: frames told apart by their last word, with the
\* two zero frames of the end of a row or without them.
BitPayloads(size) ==
  { FramesOf(kinds, size) :
      kinds \in { <<1>>, <<1, 2>>, <<1, 0, 0, 2>>, <<1, 0, 3, 2>>, <<1, 0>> } }

BitFars ==
  { FrameAddressRegister(0, CLB_IO_CLK, 0, 0, 0, ULTRASCALE),
    FrameAddressRegister(0, CLB_IO_CLK, 0, 1, 0, ULTRASCALE) }

\* The words of a section: the sync word, an IDCODE write or none, padding or
\* a NOOP, a FAR write, an FDRI write and the DESYNC command.
BitSections ==
  { <<SYNC_WORD>> \o head \o pad \o WriteWords(FAR, <<FarWord(f)>>) \o WriteWords(FDRI, p)
      \o WriteWords(CMD, <<DESYNC_WORD>>) :
      head \in { <<>>, WriteWords(IDCODE, <<IdcodeA>>) },
      pad \in { <<>>, <<DUMMY_WORD>>, <<NOOP_1, ZERO_WORD>> },
      f \in BitFars,
      p \in BitPayloads(frame_size_words(ExtDevice.arch)) }

\* The words of a second section, which names its own IDCODE.
BitSecondSection ==
  <<SYNC_WORD>> \o WriteWords(IDCODE, <<IdcodeB>>)
    \o WriteWords(FAR, <<FarWord(FrameAddressRegister(0, CLB_IO_CLK, 0, 0, 0, ULTRASCALE))>>)
    \o WriteWords(FDRI, FramesOf(<<4, 5>>, frame_size_words(ExtDevice.arch)))
    \o WriteWords(CMD, <<DESYNC_WORD>>)

\* The data of the files: one section or two, bytes before the first sync
\* word and between the sections; a file without a sync word, and one that
\* ends before its DESYNC command.
BitBuffers ==
  { pre \o BytesOf(sec) \o tail :
      pre \in { <<>>, <<0>> },
      sec \in BitSections,
      tail \in { <<>>, BytesOf(BitSecondSection), <<0>> \o BytesOf(BitSecondSection) } }
  \cup { <<>>, DUMMY_WORD, SYNC_WORD \o BytesOf(WriteWords(FAR, <<ZERO_WORD>>)) }

BitInit ==
  /\ dec_pc = "start"
  /\ dec_buf \in BitBuffers
  /\ dec_syncs = <<>>
  /\ dec_sync = None
  /\ dec_word_ofst = 0
  /\ dec_reg = None
  /\ dec_sub = <<>>
  /\ dec_packets = <<>>
  /\ dec_sections = <<>>
  /\ dec_last = [status |-> "none"]
  /\ dec_type1 = None
  /\ dec_data_ofst = 0

\* get_per_far_configuration_arrays is called on the parsed Bitstream: its
\* packets are the decoded ones, the COMPRESS option of the header is set or
\* not.
BitLoad ==
  /\ dec_pc = "done"
  /\ ext_pc = "idle"
  /\ ext_pc' = "parsed"
  /\ ext_dev' = ExtDevice
  /\ ext_packets' = dec_packets
  /\ ext_compressed' \in BOOLEAN
  /\ ext_encrypted' \in BOOLEAN
  /\ UNCHANGED <<ext_raw, ext_std, ext_bram, ext_entries, ext_idx, ext_far, ext_frames,
                 ext_last, ext_raw_set, ext_cache, ext_pfc, ext_calls>>
  /\ UNCHANGED notExtVars

BitNext == DecNext \/ BitLoad \/ ExtNext

-----------------------------------------------------------------------------
(* Bit locator (bit_locator.py)                                             *)

\* ArchSpec.num_clb_per_column, ArchSpec.num_18k_bram_per_column
num_clb_per_column == 60
num_18k_bram_per_column == 24

\* The SLRs of a device summary in the order of get_slr_names(), each with
\* its first and last clock region row.
\* The row majors of an SLR hold, per SLICE or RAMB column x, the column major
\* and the tile type of the column. A row has two CLB columns and one BRAM
\* column; a row hidden from the user has none.
LocRowMajor(base, second_tile_type) ==
  [clb_colMajors |-> (0 :> base @@ 1 :> base + 2),
   clb_tileTypes |-> (0 :> "CLEL_L" @@ 1 :> second_tile_type),
   bram_content_colMajors |-> (0 :> base + 1)]

LocHiddenRowMajor ==
  [clb_colMajors |-> <<>>, clb_tileTypes |-> <<>>, bram_content_colMajors |-> <<>>]

LocOneSlr ==
  << [name |-> "SLR0", min_clock_region_row_idx |-> 0, max_clock_region_row_idx |-> 1,
      rowMajors |-> <<LocRowMajor(1, "CLEM"), LocRowMajor(2, "CLEM")>>] >>

LocTwoSlrs ==
  << [name |-> "SLR0", min_clock_region_row_idx |-> 0, max_clock_region_row_idx |-> 1,
      rowMajors |-> <<LocRowMajor(1, "CLEM"), LocRowMajor(4, "CLEL_R")>>],
     [name |-> "SLR1", min_clock_region_row_idx |-> 2, max_clock_region_row_idx |-> 2,
      rowMajors |-> <<LocRowMajor(2, "CLEM")>>] >>

LocThreeSlrs ==
  << [name |-> "SLR1", min_clock_region_row_idx |-> 1, max_clock_region_row_idx |-> 1,
      rowMajors |-> <<LocRowMajor(3, "CLEM")>>],
     [name |-> "SLR0", min_clock_region_row_idx |-> 0, max_clock_region_row_idx |-> 0,
      rowMajors |-> <<LocRowMajor(1, "CLEM")>>],
     [name |-> "SLR2", min_clock_region_row_idx |-> 2, max_clock_region_row_idx |-> 3,
      rowMajors |-> <<LocRowMajor(5, "CLEM"), LocHiddenRowMajor>>] >>

LocDevices == {LocOneSlr, LocTwoSlrs, LocThreeSlrs}

\* Largest Y coordinate in a name handed to the locator.
MaxY == 241

\* BitLocator._get_min_max_row_majors_in_slr
get_min_max_row_majors_in_slr(dev, slr_name) ==
  LET slr == CHOOSE s \in { dev[i] : i \in 1..Len(dev) } : s.name = slr_name
  IN  <<slr.min_clock_region_row_idx, slr.max_clock_region_row_idx>>

\* _get_slr_name mutated: the first Y of an SLR is left to the SLR below.
RECURSIVE SlrScan_exclusive_min(_, _, _, _, _)
SlrScan_exclusive_min(dev, i, bel_y, num_bel_per_column, target_slrName) ==
  IF i > Len(dev) THEN target_slrName
  ELSE
    LET mm == get_min_max_row_majors_in_slr(dev, dev[i].name)
        min_y == mm[1] * num_bel_per_column
        max_y == (mm[2] + 1) * num_bel_per_column
    IN  SlrScan_exclusive_min(dev, i + 1, bel_y, num_bel_per_column,
                IF min_y < bel_y /\ bel_y <= max_y THEN <<dev[i].name>>
                ELSE target_slrName)

\* The loops of _get_slr_name over the SLRs from the i-th on: the range of
\* Y of each is computed, and the latest SLR whose range holds bel_y is kept.
RECURSIVE SlrScan(_, _, _, _, _)
SlrScan(dev, i, bel_y, num_bel_per_column, target_slrName) ==
  IF i > Len(dev) THEN target_slrName
  ELSE
    LET mm == get_min_max_row_majors_in_slr(dev, dev[i].name)
        min_y == mm[1] * num_bel_per_column
        max_y == (mm[2] + 1) * num_bel_per_column - 1
    IN  SlrScan(dev, i + 1, bel_y, num_bel_per_column,
                IF min_y <= bel_y /\ bel_y <= max_y THEN <<dev[i].name>>
                ELSE target_slrName)

\* BitLocator._get_slr_name
get_slr_name(dev, bel_y, num_bel_per_column) ==
  LET target_slrName == SlrScan(dev, 1, bel_y, num_bel_per_column, <<>>)
  IN  IF target_slrName = <<>> THEN [status |-> "AssertionError"]
      ELSE [status |-> "ok", slr_name |-> target_slrName[1]]

\* _get_row_major mutated: the row major is returned as Vivado numbers it,
\* across the SLRs.
get_row_major_absolute(dev, bel_y, slr_name, num_bel_per_column) ==
  LET mm == get_min_max_row_majors_in_slr(dev, slr_name)
      rows == { rowMajor \in mm[1]..mm[2] :
                  /\ rowMajor * num_bel_per_column <= bel_y
                  /\ bel_y <= (rowMajor + 1) * num_bel_per_column - 1 }
  IN  IF rows = {} THEN [status |-> "AssertionError"]
      ELSE [status |-> "ok", row_major |-> CHOOSE r \in rows : \A q \in rows : q <= r]

\* BitLocator._get_row_major: the latest row of the SLR whose range of Y
\* holds bel_y, counted from the first row of the SLR.
get_row_major(dev, bel_y, slr_name, num_bel_per_column) ==
  LET mm == get_min_max_row_majors_in_slr(dev, slr_name)
      min_rowMajor == mm[1]
      max_rowMajor == mm[2]
      rows == { rowMajor \in min_rowMajor..max_rowMajor :
                  /\ rowMajor * num_bel_per_column <= bel_y
                  /\ bel_y <= (rowMajor + 1) * num_bel_per_column - 1 }
  IN  IF rows = {} THEN [status |-> "AssertionError"]
      ELSE [status |-> "ok",
            row_major |-> (CHOOSE r \in rows : \A q \in rows : q <= r) - min_rowMajor]

\* num_bel_per_column of a locate_* call: locate_reg and locate_lut count
\* CLBs, locate_bram counts 18-Kib BRAMs.
NumBelPerColumn(kind) ==
  IF kind = "bram" THEN num_18k_bram_per_column ELSE num_clb_per_column

\* The ArchSpec of the part of the locator.
LocArSpec == ULTRASCALE

\* BitLocator._get_col_major mutated: the column is looked up in the first row
\* of the SLR.
get_col_major_first_row(dev, bel_x, slr_name, row_major, block_type) ==
  LET slr == CHOOSE s \in { dev[i] : i \in 1..Len(dev) } : s.name = slr_name
      row == slr.rowMajors[1]
      colMajors == IF block_type = CLB_IO_CLK THEN row.clb_colMajors
                   ELSE row.bram_content_colMajors
  IN  IF bel_x \notin DOMAIN colMajors THEN [status |-> "KeyError"]
      ELSE [status |-> "ok", colMajor |-> colMajors[bel_x],
            tileType |-> IF block_type = CLB_IO_CLK THEN row.clb_tileTypes[bel_x]
                         ELSE "BRAM"]

\* BitLocator._get_col_major, with DeviceSummary.get_clb_col_majors,
\* get_clb_tile_types and get_bram_content_col_majors: plain dicts, read by key.
get_col_major(dev, bel_x, slr_name, row_major, block_type) ==
  LET slr == CHOOSE s \in { dev[i] : i \in 1..Len(dev) } : s.name = slr_name
      row == slr.rowMajors[row_major + 1]
      colMajors == IF block_type = CLB_IO_CLK THEN row.clb_colMajors
                   ELSE row.bram_content_colMajors
  IN  IF bel_x \notin DOMAIN colMajors THEN [status |-> "KeyError"]
      ELSE [status |-> "ok", colMajor |-> colMajors[bel_x],
            tileType |-> IF block_type = CLB_IO_CLK THEN row.clb_tileTypes[bel_x]
                         ELSE "BRAM"]

\* Bits of a LUT equation, scaled down from 64, and bits of a BRAM the model
\* locates, scaled down from the 16384 memory and 2048 parity bits.
LutInitBits == 4
BramBits == 2

\* What ArchSummary.__init__ stores in _lut_locs: the CLB tile types of the
\* architecture summary, the Y offsets of a column (the last one of CLEM is
\* not in the summary) and the LUT names, each with one minor and one frame
\* offset per bit of the equation.
HasLutLoc(tile_type, y_ofst, bel_name) ==
  /\ tile_type \in {"CLEL_L", "CLEM"}
  /\ y_ofst \in 0..(num_clb_per_column - 1)
  /\ ~(tile_type = "CLEM" /\ y_ofst = num_clb_per_column - 1)
  /\ bel_name \in {"A6LUT", "H6LUT"}

LutLoc(tile_type, y_ofst, bel_name) ==
  [minors |-> [i \in 1..LutInitBits |->
                 ((IF tile_type = "CLEM" THEN 1 ELSE 0) + i + y_ofst) % 3],
   frame_ofsts |-> [i \in 1..LutInitBits |->
                      (y_ofst * LutInitBits + i - 1 + (IF bel_name = "H6LUT" THEN 7 ELSE 0))
                        % (32 * frame_size_words(LocArSpec))]]

\* What ArchSummary.__init__ stores in _reg_locs.
HasRegLoc(tile_type, y_ofst, bel_name) ==
  /\ tile_type \in {"CLEL_L", "CLEM"}
  /\ y_ofst \in 0..(num_clb_per_column - 1)
  /\ ~(tile_type = "CLEM" /\ y_ofst = num_clb_per_column - 1)
  /\ bel_name \in {"AFF", "AFF2"}

RegLoc(tile_type, y_ofst, bel_name) ==
  [minor |-> ((IF tile_type = "CLEM" THEN 2 ELSE 0) + y_ofst) % 3,
   frame_ofst |-> (y_ofst + (IF bel_name = "AFF2" THEN 5 ELSE 0))
                    % (32 * frame_size_words(LocArSpec))]

\* What ArchSummary.__init__ stores in _bram_mem_locs and _bram_parity_locs.
BramMemLoc(y_ofst) ==
  [minors |-> [i \in 1..BramBits |-> (i + y_ofst) % 3],
   frame_ofsts |-> [i \in 1..BramBits |-> (2 * y_ofst + i) % (32 * frame_size_words(LocArSpec))]]

BramParityLoc(y_ofst) ==
  [minors |-> [i \in 1..BramBits |-> (i + y_ofst + 1) % 3],
   frame_ofsts |-> [i \in 1..BramBits |-> (y_ofst + 3 * i) % (32 * frame_size_words(LocArSpec))]]

\* get_lut_loc mutated: a key the table does not hold is not added.
get_lut_loc_plain(added, tile_type, y_ofst, bel_name) ==
  IF HasLutLoc(tile_type, y_ofst, bel_name)
  THEN [status |-> "ok", added |-> added, loc |-> LutLoc(tile_type, y_ofst, bel_name)]
  ELSE [status |-> "KeyError", added |-> added]

\* ArchSummary.get_lut_loc: _lut_locs is a defaultdict of defaultdicts of
\* defaultdict(tuple), so reading a key it does not hold stores the empty
\* tuple under the key, and unpacking the empty tuple raises ValueError.
get_lut_loc(added, tile_type, y_ofst, bel_name) ==
  IF HasLutLoc(tile_type, y_ofst, bel_name)
  THEN [status |-> "ok", added |-> added, loc |-> LutLoc(tile_type, y_ofst, bel_name)]
  ELSE [status |-> "ValueError", added |-> added \cup {<<tile_type, y_ofst, bel_name>>}]

\* ArchSummary.get_reg_loc: the same on _reg_locs.
get_reg_loc(added, tile_type, y_ofst, bel_name) ==
  IF HasRegLoc(tile_type, y_ofst, bel_name)
  THEN [status |-> "ok", added |-> added, loc |-> RegLoc(tile_type, y_ofst, bel_name)]
  ELSE [status |-> "ValueError", added |-> added \cup {<<tile_type, y_ofst, bel_name>>}]

\* locate_lut mutated: the offset in the column is taken over the BRAMs of a
\* column.
LutYOfst_bram(bel_y) == bel_y % num_18k_bram_per_column

\* locate_reg, locate_lut: y_ofst = bel_y % num_clb_per_column
LutYOfst(bel_y) == bel_y % num_clb_per_column

\* The list of FARs locate_lut and locate_bram build, one per minor.
LocFars(block_type, row_major, col_major, minors) ==
  [i \in 1..Len(minors) |->
     FrameAddressRegister(0, block_type, row_major, col_major, minors[i], LocArSpec)]

\* Names the pattern _clb_pattern accepts, by their bel group.
LocBels == {"A6LUT", "H6LUT", "AFF", "AFF2"}

\* Largest X coordinate in a name handed to the locator.
MaxX == 2

LocInit ==
  /\ loc_pc = "start"
  /\ loc_dev \in LocDevices
  /\ loc_kind \in {"reg", "lut", "bram"}
  /\ loc_y \in 0..MaxY
  /\ loc_slr = <<>>
  /\ loc_row = <<>>
  /\ loc_x \in 0..MaxX
  /\ loc_bel \in (IF loc_kind = "bram" THEN {""} ELSE LocBels)
  /\ loc_col = <<>>
  /\ loc_lut_added = {}
  /\ loc_reg_added = {}
  /\ loc_out = <<>>

LocIdle ==
  /\ loc_pc = "idle"
  /\ loc_dev = LocOneSlr
  /\ loc_kind = "reg"
  /\ loc_y = 0
  /\ loc_slr = <<>>
  /\ loc_row = <<>>
  /\ loc_x = 0
  /\ loc_bel = ""
  /\ loc_col = <<>>
  /\ loc_lut_added = {}
  /\ loc_reg_added = {}
  /\ loc_out = <<>>

\* locate_reg, locate_lut, locate_bram: slr_name = self._get_slr_name(...)
LocSlr ==
  /\ loc_pc = "start"
  /\ \E r \in {get_slr_name(loc_dev, loc_y, NumBelPerColumn(loc_kind))} :
       /\ r.status = "ok"
       /\ loc_slr' = <<r.slr_name>>
  /\ loc_pc' = "slr"
  /\ UNCHANGED <<loc_dev, loc_kind, loc_y, loc_row, loc_x, loc_bel, loc_col,
                 loc_lut_added, loc_reg_added, loc_out>>
  /\ UNCHANGED notLocVars

\* The same when _get_slr_name raises: the locate_* call ends there.
LocSlrRaises ==
  /\ loc_pc = "start"
  /\ \E r \in {get_slr_name(loc_dev, loc_y, NumBelPerColumn(loc_kind))} :
       /\ r.status # "ok"
       /\ loc_pc' = r.status
  /\ UNCHANGED <<loc_dev, loc_kind, loc_y, loc_slr, loc_row, loc_x, loc_bel, loc_col,
                 loc_lut_added, loc_reg_added, loc_out>>
  /\ UNCHANGED notLocVars

\* row_major = self._get_row_major(bel_y, slr_name, ...)
LocRow ==
  /\ loc_pc = "slr"
  /\ \E r \in {get_row_major(loc_dev, loc_y, loc_slr[1], NumBelPerColumn(loc_kind))} :
       /\ loc_pc' = IF r.status = "ok" THEN "row" ELSE r.status
       /\ loc_row' = IF r.status = "ok" THEN <<r.row_major>> ELSE loc_row
  /\ UNCHANGED <<loc_dev, loc_kind, loc_y, loc_slr, loc_x, loc_bel, loc_col,
                 loc_lut_added, loc_reg_added, loc_out>>
  /\ UNCHANGED notLocVars

\* (col_major, col_tile_type) = self._get_col_major(bel_x, slr_name, row_major, ...)
LocCol ==
  /\ loc_pc = "row"
  /\ \E r \in {get_col_major(loc_dev, loc_x, loc_slr[1], loc_row[1],
                             IF loc_kind = "bram" THEN BRAM_CONTENT ELSE CLB_IO_CLK)} :
       /\ loc_pc' = IF r.status = "ok" THEN "col" ELSE r.status
       /\ loc_col' = IF r.status = "ok"
                     THEN <<[col_major |-> r.colMajor, col_tile_type |-> r.tileType]>>
                     ELSE loc_col
  /\ UNCHANGED <<loc_dev, loc_kind, loc_y, loc_slr, loc_row, loc_x, loc_bel,
                 loc_lut_added, loc_reg_added, loc_out>>
  /\ UNCHANGED notLocVars

\* locate_lut from y_ofst on: the lookup in the architecture summary, the FARs
\* and the return.
LocLut ==
  /\ loc_pc = "col"
  /\ loc_kind = "lut"
  /\ \E r \in {get_lut_loc(loc_lut_added, loc_col[1].col_tile_type, LutYOfst(loc_y), loc_bel)} :
       /\ loc_lut_added' = r.added
       /\ loc_pc' = IF r.status = "ok" THEN "located" ELSE r.status
       /\ loc_out' = IF r.status = "ok"
                     THEN <<[slr_name |-> loc_slr[1],
                             fars |-> LocFars(CLB_IO_CLK, loc_row[1], loc_col[1].col_major,
                                              r.loc.minors),
                             frame_ofsts |-> r.loc.frame_ofsts]>>
                     ELSE loc_out
  /\ UNCHANGED <<loc_dev, loc_kind, loc_y, loc_slr, loc_row, loc_x, loc_bel, loc_col,
                 loc_reg_added>>
  /\ UNCHANGED notLocVars

\* locate_reg from y_ofst on.
LocReg ==
  /\ loc_pc = "col"
  /\ loc_kind = "reg"
  /\ \E r \in {get_reg_loc(loc_reg_added, loc_col[1].col_tile_type, LutYOfst(loc_y), loc_bel)} :
       /\ loc_reg_added' = r.added
       /\ loc_pc' = IF r.status = "ok" THEN "located" ELSE r.status
       /\ loc_out' = IF r.status = "ok"
                     THEN <<[slr_name |-> loc_slr[1],
                             far |-> FrameAddressRegister(0, CLB_IO_CLK, loc_row[1],
                                       loc_col[1].col_major, r.loc.minor, LocArSpec),
                             frame_ofst |-> r.loc.frame_ofst]>>
                     ELSE loc_out
  /\ UNCHANGED <<loc_dev, loc_kind, loc_y, loc_slr, loc_row, loc_x, loc_bel, loc_col,
                 loc_lut_added>>
  /\ UNCHANGED notLocVars

\* locate_bram from y_ofst on: _bram_mem_locs and _bram_parity_locs are plain
\* dicts that hold every Y offset of a column.
LocBram ==
  /\ loc_pc = "col"
  /\ loc_kind = "bram"
  /\ \E y_ofst \in {loc_y % num_18k_bram_per_column} :
       loc_out' = <<[slr_name |-> loc_slr[1],
                     mem_fars |-> LocFars(BRAM_CONTENT, loc_row[1], loc_col[1].col_major,
                                          BramMemLoc(y_ofst).minors),
                     mem_frame_ofsts |-> BramMemLoc(y_ofst).frame_ofsts,
                     parity_fars |-> LocFars(BRAM_CONTENT, loc_row[1], loc_col[1].col_major,
                                             BramParityLoc(y_ofst).minors),
                     parity_frame_ofsts |-> BramParityLoc(y_ofst).frame_ofsts]>>
  /\ loc_pc' = "located"
  /\ UNCHANGED <<loc_dev, loc_kind, loc_y, loc_slr, loc_row, loc_x, loc_bel, loc_col,
                 loc_lut_added, loc_reg_added>>
  /\ UNCHANGED notLocVars

LocNext == LocSlr \/ LocSlrRaises \/ LocRow \/ LocCol \/ LocLut \/ LocReg \/ LocBram

\* ArchSpec.num_lut_per_clb, num_reg_per_clb, num_dsp_per_column,
\* num_36k_bram_per_column
num_lut_per_clb == 8
num_reg_per_clb == 16
num_dsp_per_column == 24
num_36k_bram_per_column == 12

\* ArchSpec.__hash__: the hash of a tuple, kept as the tuple (tuples that
\* differ hash differently): the class and what its methods return, so two
\* ArchSpec objects of one architecture hash alike.
ArchSpecHash(spec) ==
  <<spec,
    far_reserved_idx_high(spec), far_reserved_idx_low(spec),
    far_block_type_idx_high(spec), far_block_type_idx_low(spec),
    far_row_address_idx_high(spec), far_row_address_idx_low(spec),
    far_column_address_idx_high(spec), far_column_address_idx_low(spec),
    far_minor_address_idx_high(spec), far_minor_address_idx_low(spec),
    frame_size_words(spec), num_clb_per_column, num_lut_per_clb, num_reg_per_clb,
    num_dsp_per_column, num_36k_bram_per_column, num_18k_bram_per_column>>

\* FrameAddressRegister.__hash__
FarHash(self) ==
  <<"FrameAddressRegister", ArchSpecHash(self.spec), self.reserved, self.block_type,
    self.row_addr, self.col_addr, self.minor_addr>>

-----------------------------------------------------------------------------
(* State checker (bitstream_state_checker.py): the flip-flop section of     *)
(* check_state, on one flip-flop of the expected values                     *)

\* A verilog number <num_bits>'<base><value> is kept as its three groups, the
\* value as its digits.
RECURSIVE DigitsToNat(_, _, _)
DigitsToNat(digits, n, radix) ==
  IF n = 0 THEN 0 ELSE DigitsToNat(digits, n - 1, radix) * radix + digits[n]

\* The format 0>{num_bits}b: zeros on the left up to num_bits digits.
RECURSIVE ZeroFill(_, _)
ZeroFill(digits, num_bits) ==
  IF Len(digits) >= num_bits THEN digits ELSE ZeroFill(<<0>> \o digits, num_bits)

\* helpers.verilog_num_to_bin
verilog_num_to_bin(vnum) ==
  LET value_int == IF vnum.base = "b"
                   THEN DigitsToNat(vnum.value, Len(vnum.value), 2)
                   ELSE DigitsToNat(vnum.value, Len(vnum.value), 16)
  IN ZeroFill(NatToBin(value_int), vnum.num_bits)

\* helpers.verilog_num_to_int
verilog_num_to_int(vnum) == BinToNat(verilog_num_to_bin(vnum))

\* ConfigFrame.bit: the assertion on the offset.
BitOfstInFrame(frame, bit_ofst) ==
  0 <= bit_ofst /\ bit_ofst < frame_size_words(frame.spec) * 32

\* ConfigFrame.bit mutated: the offset in the word is counted from bit 31.
ConfigFrameBit_from_msb(frame, bit_ofst) ==
  LET word_idx == bit_ofst \div 32
      word_ofst == 31 - (bit_ofst % 32)
      target_word == frame.words[word_idx + 1]
  IN bits(target_word, word_ofst, word_ofst)

\* ConfigFrame.bit, the offset being in range.
ConfigFrameBit(frame, bit_ofst) ==
  LET word_idx == bit_ofst \div 32
      word_ofst == bit_ofst % 32
      target_word == frame.words[word_idx + 1]
  IN bits(target_word, word_ofst, word_ofst)

\* check_state mutated: INIT is expected in the frame as it is.
ExpectedRegInit_plain(init) == verilog_num_to_int(init)

\* check_state: the INIT value is inverted before it is compared.
ExpectedRegInit(init) == IF verilog_num_to_int(init) = 1 THEN 0 ELSE 1

\* INIT properties of a flip-flop: 1'b0, 1'b1, 1'h0, 1'h1.
ChkInits ==
  { [num_bits |-> 1, base |-> b, value |-> <<d>>] : b \in {"b", "h"}, d \in {0, 1} }

\* Words a frame of the model is made of.
ChkWords == { ZERO_WORD, <<0, 0, 0, 1>>, <<128, 0, 0, 0>>, <<255, 255, 255, 254>> }

\* Frames of both architectures, as ConfigFrame.__init__ accepts them.
ChkFrames ==
  { [words |-> w, spec |-> ULTRASCALE] : w \in [1..FrameWordsUltraScale -> ChkWords] }
  \cup { [words |-> w, spec |-> ULTRASCALE_PLUS] : w \in [1..FrameWordsUltraScalePlus -> ChkWords] }

\* Offsets the locator may hand over: every bit of the longest frame and one
\* past it.
ChkOfsts == 0..(FrameWordsUltraScale * 32)

ChkInit ==
  /\ chk_pc = "start"
  /\ chk_init \in ChkInits
  /\ chk_frame \in ChkFrames
  /\ chk_ofst \in ChkOfsts
  /\ chk_found = None

ChkIdle ==
  /\ chk_pc = "idle"
  /\ chk_init = [num_bits |-> 1, base |-> "b", value |-> <<0>>]
  /\ chk_frame = [words |-> <<ZERO_WORD>>, spec |-> ULTRASCALE_PLUS]
  /\ chk_ofst = 0
  /\ chk_found = None

\* frame.bit(frame_ofst) raises on an offset outside the frame.
ChkBitRaises ==
  /\ chk_pc = "start"
  /\ ~BitOfstInFrame(chk_frame, chk_ofst)
  /\ chk_pc' = "AssertionError"
  /\ UNCHANGED <<chk_init, chk_frame, chk_ofst, chk_found>>
  /\ UNCHANGED notChkVars

\* The found bit is the expected one: the loop goes on to the next flip-flop.
ChkRegMatches ==
  /\ chk_pc = "start"
  /\ BitOfstInFrame(chk_frame, chk_ofst)
  /\ \E found_reg_init \in {ConfigFrameBit(chk_frame, chk_ofst)} :
       /\ found_reg_init = ExpectedRegInit(chk_init)
       /\ chk_found' = found_reg_init
  /\ chk_pc' = "pass"
  /\ UNCHANGED <<chk_init, chk_frame, chk_ofst>>
  /\ UNCHANGED notChkVars

\* The found bit is not the expected one: check_state returns False.
ChkRegDiffers ==
  /\ chk_pc = "start"
  /\ BitOfstInFrame(chk_frame, chk_ofst)
  /\ \E found_reg_init \in {ConfigFrameBit(chk_frame, chk_ofst)} :
       /\ found_reg_init # ExpectedRegInit(chk_init)
       /\ chk_found' = found_reg_init
  /\ chk_pc' = "fail"
  /\ UNCHANGED <<chk_init, chk_frame, chk_ofst>>
  /\ UNCHANGED notChkVars

ChkNext == ChkBitRaises \/ ChkRegMatches \/ ChkRegDiffers

-----------------------------------------------------------------------------
(* Differ (diff_bitstreams.py): locate_config_difference on the per-FAR     *)
(* configuration arrays of two bitstreams of one part                       *)

\* diff_frame mutated: the words are compared up to bit 30.
RECURSIVE diff_frame_skips_msb(_, _, _)
diff_frame_skips_msb(baseline_frame, modified_frame, n) ==
  IF n = 0 THEN <<>>
  ELSE LET bit_ofst_in_frame == n - 1
           word_idx == bit_ofst_in_frame \div 32
           bit_ofst_in_word == bit_ofst_in_frame % 32
           baseline_bit == bits(baseline_frame.words[word_idx + 1], bit_ofst_in_word, bit_ofst_in_word)
           modified_bit == bits(modified_frame.words[word_idx + 1], bit_ofst_in_word, bit_ofst_in_word)
       IN diff_frame_skips_msb(baseline_frame, modified_frame, n - 1)
            \o (IF baseline_bit # modified_bit /\ bit_ofst_in_word < 31
                THEN <<bit_ofst_in_frame>> ELSE <<>>)

\* diff_frame: the offsets below n, in increasing order, at which the two
\* frames differ; n is 32 times the number of word pairs zip gives.
RECURSIVE diff_frame(_, _, _)
diff_frame(baseline_frame, modified_frame, n) ==
  IF n = 0 THEN <<>>
  ELSE LET bit_ofst_in_frame == n - 1
           word_idx == bit_ofst_in_frame \div 32
           bit_ofst_in_word == bit_ofst_in_frame % 32
           baseline_bit == bits(baseline_frame.words[word_idx + 1], bit_ofst_in_word, bit_ofst_in_word)
           modified_bit == bits(modified_frame.words[word_idx + 1], bit_ofst_in_word, bit_ofst_in_word)
       IN diff_frame(baseline_frame, modified_frame, n - 1)
            \o (IF baseline_bit # modified_bit THEN <<bit_ofst_in_frame>> ELSE <<>>)

\* The number of bit positions diff_frame visits.
ZipBits(baseline_frame, modified_frame) ==
  32 * (IF Len(baseline_frame.words) < Len(modified_frame.words)
        THEN Len(baseline_frame.words) ELSE Len(modified_frame.words))

\* frame_ofst_str: the offset, marked with "!" when the bit is active-low.
FrameOfstStr(baseline_bit_value, modified_bit_value, frame_ofst) ==
  IF baseline_bit_value = 0 /\ modified_bit_value = 1
  THEN [mark |-> "", ofst |-> frame_ofst]
  ELSE [mark |-> "!", ofst |-> frame_ofst]

\* The appends of one pair of frames, for the offsets frame_ofsts[1..n].
RECURSIVE FrameAppends(_, _, _, _, _, _)
FrameAppends(idcode, far, baseline_frame, modified_frame, frame_ofsts, n) ==
  IF n = 0 THEN <<>>
  ELSE LET frame_ofst == frame_ofsts[n]
           baseline_bit_value == ConfigFrameBit(baseline_frame, frame_ofst)
           modified_bit_value == ConfigFrameBit(modified_frame, frame_ofst)
       IN Append(FrameAppends(idcode, far, baseline_frame, modified_frame, frame_ofsts, n - 1),
                 [idcode |-> idcode, far |-> far,
                  frame_ofst |-> FrameOfstStr(baseline_bit_value, modified_bit_value, frame_ofst)])

\* One pair of frames: "AssertionError" on different byte offsets, else the
\* appends.
FramePair(idcode, far, baseline_frame, modified_frame) ==
  IF baseline_frame.byte_ofst # modified_frame.byte_ofst THEN "AssertionError"
  ELSE IF baseline_frame.words = modified_frame.words THEN <<>>
  ELSE LET frame_ofsts == diff_frame(baseline_frame, modified_frame,
                                     ZipBits(baseline_frame, modified_frame))
       IN FrameAppends(idcode, far, baseline_frame, modified_frame, frame_ofsts,
                       Len(frame_ofsts))

\* The frames of one FAR, pairs 1..n of the zip.
RECURSIVE FarFrames(_, _, _, _, _)
FarFrames(idcode, far, baseline_frames, modified_frames, n) ==
  IF n = 0 THEN <<>>
  ELSE LET before == FarFrames(idcode, far, baseline_frames, modified_frames, n - 1)
           pair == FramePair(idcode, far, baseline_frames[n], modified_frames[n])
       IN IF before = "AssertionError" \/ pair = "AssertionError"
          THEN "AssertionError" ELSE before \o pair

\* The order in which the FARs of a dict are visited.
DifFarOrder ==
  << FrameAddressRegister(0, CLB_IO_CLK, 0, 0, 0, ULTRASCALE),
     FrameAddressRegister(0, CLB_IO_CLK, 0, 0, 1, ULTRASCALE) >>

\* The body of the loop over baseline_fars, for the FARs DifFarOrder[1..n].
RECURSIVE IdcodeFars(_, _, _, _)
IdcodeFars(idcode, baseline, modified, n) ==
  IF n = 0 THEN <<>>
  ELSE LET far == DifFarOrder[n]
           before == IdcodeFars(idcode, baseline, modified, n - 1)
       IN IF before = "AssertionError" THEN "AssertionError"
          ELSE IF far \notin DOMAIN baseline[idcode] THEN before
          ELSE IF Len(baseline[idcode][far]) # Len(modified[idcode][far])
          THEN "AssertionError"
          ELSE LET frames == FarFrames(idcode, far, baseline[idcode][far],
                                       modified[idcode][far], Len(baseline[idcode][far]))
               IN IF frames = "AssertionError" THEN "AssertionError" ELSE before \o frames

\* The body of the loop over baseline_idcodes: "AssertionError" or the appends.
DiffIdcode(idcode, baseline, modified) ==
  IF DOMAIN baseline[idcode] # DOMAIN modified[idcode] THEN "AssertionError"
  ELSE IdcodeFars(idcode, baseline, modified, Len(DifFarOrder))

\* The final assertion mutated: no IDCODE at all is accepted as well.
SingleIdcode_or_none(diff_idcodes) ==
  Cardinality({ diff_idcodes[k] : k \in 1..Len(diff_idcodes) }) <= 1

\* len(set(diff_idcodes)) == 1
SingleIdcode(diff_idcodes) ==
  Cardinality({ diff_idcodes[k] : k \in 1..Len(diff_idcodes) }) = 1

\* The keys of a dict of IDCODEs in the order they were inserted, the order of
\* the SLRs in the bitstream.
DifIdcodeOrder(view) ==
  IF DOMAIN view = {IdcodeA, IdcodeB} THEN <<IdcodeA, IdcodeB>>
  ELSE IF DOMAIN view = {IdcodeA} THEN <<IdcodeA>>
  ELSE IF DOMAIN view = {IdcodeB} THEN <<IdcodeB>> ELSE <<>>

\* Frames of the model: all zero, bit 0 of the first word set, bits 31 and 0
\* of the last word set.
DifFrame(byte_ofst, pattern) ==
  [byte_ofst |-> byte_ofst, spec |-> ULTRASCALE,
   words |-> [k \in 1..FrameWordsUltraScale |->
                IF pattern = 1 /\ k = 1 THEN <<0, 0, 0, 1>>
                ELSE IF pattern = 2 /\ k = FrameWordsUltraScale THEN <<128, 0, 0, 1>>
                ELSE ZERO_WORD]]

DifBaselineLists ==
  { <<DifFrame(16, 0)>>, <<DifFrame(16, 2)>>, <<DifFrame(16, 0), DifFrame(40, 0)>> }

DifModifiedLists ==
  { <<DifFrame(16, 0)>>, <<DifFrame(16, 1)>>, <<DifFrame(16, 2)>>, <<DifFrame(24, 0)>>,
    <<DifFrame(16, 0), DifFrame(40, 1)>> }

DifFarSets == { {DifFarOrder[1]}, {DifFarOrder[1], DifFarOrder[2]} }

\* Baselines: the same list of frames under every IDCODE and FAR.
DifBaselines ==
  { [idcode \in ids |-> [far \in fars |-> frames]] :
      ids \in {{IdcodeA}, {IdcodeA, IdcodeB}}, fars \in DifFarSets,
      frames \in DifBaselineLists }

\* Frames of the second FAR in a modified bitstream.
DifSecondLists == { <<DifFrame(16, 0)>>, <<DifFrame(16, 1)>> }

DifModifiedsOf(ids, fars) ==
  { [idcode \in ids |->
       [far \in fars |-> IF far = DifFarOrder[1] THEN first[idcode] ELSE second[idcode]]] :
      first \in [ids -> DifModifiedLists], second \in [ids -> DifSecondLists] }

DifModifieds ==
  UNION { DifModifiedsOf(ids, fars) :
            ids \in {{IdcodeA}, {IdcodeB}, {IdcodeA, IdcodeB}}, fars \in DifFarSets }

DifInit ==
  /\ dif_pc = "start"
  /\ dif_baseline \in DifBaselines
  /\ dif_modified \in DifModifieds
  /\ dif_todo = <<>>
  /\ dif_out = <<>>

DifIdle ==
  /\ dif_pc = "idle"
  /\ dif_baseline = <<>>
  /\ dif_modified = <<>>
  /\ dif_todo = <<>>
  /\ dif_out = <<>>

\* assert baseline_idcodes == modified_idcodes, passing.
DifIdcodes ==
  /\ dif_pc = "start"
  /\ DOMAIN dif_baseline = DOMAIN dif_modified
  /\ dif_pc' = "loop"
  /\ dif_todo' = DifIdcodeOrder(dif_baseline)
  /\ UNCHANGED <<dif_baseline, dif_modified, dif_out>>
  /\ UNCHANGED notDifVars

\* assert baseline_idcodes == modified_idcodes, failing.
DifIdcodesRaises ==
  /\ dif_pc = "start"
  /\ DOMAIN dif_baseline # DOMAIN dif_modified
  /\ dif_pc' = "AssertionError"
  /\ UNCHANGED <<dif_baseline, dif_modified, dif_todo, dif_out>>
  /\ UNCHANGED notDifVars

\* One iteration of the loop over baseline_idcodes.
DifIdcode ==
  /\ dif_pc = "loop"
  /\ dif_todo # <<>>
  /\ \E appends \in {DiffIdcode(Head(dif_todo), dif_baseline, dif_modified)} :
       /\ appends # "AssertionError"
       /\ dif_out' = dif_out \o appends
  /\ dif_todo' = Tail(dif_todo)
  /\ UNCHANGED <<dif_pc, dif_baseline, dif_modified>>
  /\ UNCHANGED notDifVars

\* An iteration of the loop over baseline_idcodes in which an assertion fails:
\* the lists of the call are lost with it.
DifIdcodeRaises ==
  /\ dif_pc = "loop"
  /\ dif_todo # <<>>
  /\ DiffIdcode(Head(dif_todo), dif_baseline, dif_modified) = "AssertionError"
  /\ dif_pc' = "AssertionError"
  /\ dif_out' = <<>>
  /\ UNCHANGED <<dif_baseline, dif_modified, dif_todo>>
  /\ UNCHANGED notDifVars

\* The final assertion passes: (diff_idcodes[0], diff_fars, diff_frameOfsts)
\* is returned.
DifReturn ==
  /\ dif_pc = "loop"
  /\ dif_todo = <<>>
  /\ SingleIdcode([k \in 1..Len(dif_out) |-> dif_out[k].idcode])
  /\ dif_pc' = "returned"
  /\ UNCHANGED <<dif_baseline, dif_modified, dif_todo, dif_out>>
  /\ UNCHANGED notDifVars

\* The final assertion fails.
DifReturnRaises ==
  /\ dif_pc = "loop"
  /\ dif_todo = <<>>
  /\ ~SingleIdcode([k \in 1..Len(dif_out) |-> dif_out[k].idcode])
  /\ dif_pc' = "AssertionError"
  /\ dif_out' = <<>>
  /\ UNCHANGED <<dif_baseline, dif_modified, dif_todo>>
  /\ UNCHANGED notDifVars

DifNext ==
  \/ DifIdcodes
  \/ DifIdcodesRaises
  \/ DifIdcode
  \/ DifIdcodeRaises
  \/ DifReturn
  \/ DifReturnRaises

-----------------------------------------------------------------------------
(* Table registry (resources.py): get_device_summary called by several      *)
(* threads for parts of one device. Nothing in resources.py takes a lock,   *)
(* so the threads interleave between any two of the steps below.            *)

\* Threads that call get_device_summary, and the calls each of them makes.
NumThreads == 2
MaxRegCalls == 2
RegThreads == 1..NumThreads

RegInit ==
  /\ reg_pc = [t \in RegThreads |-> "begin"]
  /\ reg_parts = FALSE
  /\ reg_entry = None
  /\ reg_loads = 0
  /\ reg_new = [t \in RegThreads |-> None]
  /\ reg_ret = [t \in RegThreads |-> None]
  /\ reg_calls = [t \in RegThreads |-> 0]
  /\ reg_writes = 0

RegIdle ==
  /\ reg_pc = [t \in RegThreads |-> "idle"]
  /\ reg_parts = FALSE
  /\ reg_entry = None
  /\ reg_loads = 0
  /\ reg_new = [t \in RegThreads |-> None]
  /\ reg_ret = [t \in RegThreads |-> None]
  /\ reg_calls = [t \in RegThreads |-> 0]
  /\ reg_writes = 0

\* load_part_files: len(_parts_all_db) == 0 is tested.
RegPartsTest(t) ==
  /\ reg_pc[t] = "begin"
  /\ reg_pc' = [reg_pc EXCEPT ![t] = IF reg_parts THEN "check" ELSE "parts"]
  /\ UNCHANGED <<reg_parts, reg_entry, reg_loads, reg_new, reg_ret, reg_calls, reg_writes>>
  /\ UNCHANGED notRegVars

\* load_part_files: _parts_all_db = load_part_file(PARTS_ALL_FILE).
RegPartsLoad(t) ==
  /\ reg_pc[t] = "parts"
  /\ reg_parts' = TRUE
  /\ reg_pc' = [reg_pc EXCEPT ![t] = "check"]
  /\ UNCHANGED <<reg_entry, reg_loads, reg_new, reg_ret, reg_calls, reg_writes>>
  /\ UNCHANGED notRegVars

\* get_device_summary: if device not in _device_summaries.
RegTest(t) ==
  /\ reg_pc[t] = "check"
  /\ reg_pc' = [reg_pc EXCEPT ![t] = IF reg_entry = None THEN "construct" ELSE "return"]
  /\ UNCHANGED <<reg_parts, reg_entry, reg_loads, reg_new, reg_ret, reg_calls, reg_writes>>
  /\ UNCHANGED notRegVars

\* get_device_summary: DeviceSummary(helpers.read_json(summary_path)) builds a
\* new object, named by its rank among the objects built.
RegConstruct(t) ==
  /\ reg_pc[t] = "construct"
  /\ reg_loads' = reg_loads + 1
  /\ reg_new' = [reg_new EXCEPT ![t] = reg_loads + 1]
  /\ reg_pc' = [reg_pc EXCEPT ![t] = "store"]
  /\ UNCHANGED <<reg_parts, reg_entry, reg_ret, reg_calls, reg_writes>>
  /\ UNCHANGED notRegVars

\* get_device_summary: _device_summaries[device] = <the new object>.
RegStore(t) ==
  /\ reg_pc[t] = "store"
  /\ reg_entry' = reg_new[t]
  /\ reg_new' = [reg_new EXCEPT ![t] = None]
  /\ reg_writes' = reg_writes + 1
  /\ reg_pc' = [reg_pc EXCEPT ![t] = "return"]
  /\ UNCHANGED <<reg_parts, reg_loads, reg_ret, reg_calls>>
  /\ UNCHANGED notRegVars

\* get_device_summary: return _device_summaries[device].
RegReturn(t) ==
  /\ reg_pc[t] = "return"
  /\ reg_ret' = [reg_ret EXCEPT ![t] = reg_entry]
  /\ reg_calls' = [reg_calls EXCEPT ![t] = reg_calls[t] + 1]
  /\ reg_pc' = [reg_pc EXCEPT ![t] = "done"]
  /\ UNCHANGED <<reg_parts, reg_entry, reg_loads, reg_new, reg_writes>>
  /\ UNCHANGED notRegVars

\* The thread calls get_device_summary once more.
RegCallAgain(t) ==
  /\ reg_pc[t] = "done"
  /\ reg_calls[t] < MaxRegCalls
  /\ reg_pc' = [reg_pc EXCEPT ![t] = "begin"]
  /\ UNCHANGED <<reg_parts, reg_entry, reg_loads, reg_new, reg_ret, reg_calls, reg_writes>>
  /\ UNCHANGED notRegVars

RegNext ==
  \E t \in RegThreads :
    \/ RegPartsTest(t)
    \/ RegPartsLoad(t)
    \/ RegTest(t)
    \/ RegConstruct(t)
    \/ RegStore(t)
    \/ RegReturn(t)
    \/ RegCallAgain(t)

-----------------------------------------------------------------------------
(* Specifications                                                           *)

InitFar == FarInit /\ IncIdle /\ DecIdle /\ ExtIdle /\ LocIdle /\ ChkIdle /\ DifIdle /\ RegIdle
SpecFar == InitFar /\ [][FarNext]_vars

InitInc == IncInit /\ FarIdle /\ DecIdle /\ ExtIdle /\ LocIdle /\ ChkIdle /\ DifIdle /\ RegIdle
SpecInc == InitInc /\ [][IncNext]_vars

InitDecode == DecInit /\ FarIdle /\ IncIdle /\ ExtIdle /\ LocIdle /\ ChkIdle /\ DifIdle /\ RegIdle
SpecDecode == InitDecode /\ [][DecNext]_vars

\* The decoder with its loops scheduled: a loop that can take a step takes it
\* (the interpreter runs the call to its end).
InitDecodeLive == DecLiveInit /\ FarIdle /\ IncIdle /\ ExtIdle /\ LocIdle /\ ChkIdle /\ DifIdle /\ RegIdle
SpecDecodeLive == InitDecodeLive /\ [][DecNext]_vars /\ WF_vars(DecNext)

InitExtract == ExtInit /\ FarIdle /\ IncIdle /\ DecIdle /\ LocIdle /\ ChkIdle /\ DifIdle /\ RegIdle
SpecExtract == InitExtract /\ [][ExtNext]_vars

InitCalls == CallsInit /\ FarIdle /\ IncIdle /\ DecIdle /\ LocIdle /\ ChkIdle /\ DifIdle /\ RegIdle
SpecCalls == InitCalls /\ [][CallsNext]_vars

InitBitstream == BitInit /\ FarIdle /\ IncIdle /\ ExtIdle /\ LocIdle /\ ChkIdle /\ DifIdle /\ RegIdle
SpecBitstream == InitBitstream /\ [][BitNext]_vars

InitLocator == LocInit /\ FarIdle /\ IncIdle /\ DecIdle /\ ExtIdle /\ ChkIdle /\ DifIdle /\ RegIdle
SpecLocator == InitLocator /\ [][LocNext]_vars

InitChecker == ChkInit /\ FarIdle /\ IncIdle /\ DecIdle /\ ExtIdle /\ LocIdle /\ DifIdle /\ RegIdle
SpecChecker == InitChecker /\ [][ChkNext]_vars

InitDiffer == DifInit /\ FarIdle /\ IncIdle /\ DecIdle /\ ExtIdle /\ LocIdle /\ ChkIdle /\ RegIdle
SpecDiffer == InitDiffer /\ [][DifNext]_vars

InitRegistry == RegInit /\ FarIdle /\ IncIdle /\ DecIdle /\ ExtIdle /\ LocIdle /\ ChkIdle /\ DifIdle
SpecRegistry == InitRegistry /\ [][RegNext]_vars

-----------------------------------------------------------------------------
(* Claims on the frame address incrementer                                  *)

\* The next FAR as the increment algorithm is stated: the minor advances; at
\* the last minor of the column the column advances; at the last column of the
\* row the row advances; at the last row the block type toggles.
StatedIncrement(dev, idcode, far) ==
  LET rows == DevRows(dev, idcode, far.block_type)
      minors_in_this_col == rows[far.row_addr + 1][far.col_addr + 1]
      cols_in_this_row == Len(rows[far.row_addr + 1])
      num_rows == Len(DevRows(dev, idcode, CLB_IO_CLK))
      other == IF far.block_type = CLB_IO_CLK THEN BRAM_CONTENT ELSE CLB_IO_CLK
  IN  IF far.minor_addr + 1 # minors_in_this_col
        THEN [far EXCEPT !.minor_addr = far.minor_addr + 1]
      ELSE IF far.col_addr + 1 # cols_in_this_row
        THEN [far EXCEPT !.minor_addr = 0, !.col_addr = far.col_addr + 1]
      ELSE IF far.row_addr + 1 # num_rows
        THEN [far EXCEPT !.minor_addr = 0, !.col_addr = 0, !.row_addr = far.row_addr + 1]
      ELSE [far EXCEPT !.minor_addr = 0, !.col_addr = 0, !.row_addr = 0,
                       !.block_type = other]

\* C3: every FAR increment returns is the one the stated algorithm gives for
\* the device (minor, then column, then row, then block type; reserved kept);
\* with 2 rows of columns [4,12,58], (CLB_IO_CLK,0,2,57) goes to
\* (CLB_IO_CLK,1,0,0) and (CLB_IO_CLK,1,2,57) to (BRAM_CONTENT,0,0,0).
C3_IncrementAlgorithm ==
  (inc_pc = "ready" /\ inc_n > 0) =>
    /\ inc_far = StatedIncrement(inc_dev, inc_idcode, inc_arg)
    /\ inc_far.reserved = inc_arg.reserved
    /\ (inc_dev = DevExample /\ inc_arg.block_type = CLB_IO_CLK /\ inc_arg.col_addr = 2
        /\ inc_arg.minor_addr = 57 /\ inc_arg.row_addr = 0)
         => inc_far = FrameAddressRegister(inc_arg.reserved, CLB_IO_CLK, 1, 0, 0,
                                           inc_arg.spec)
    /\ (inc_dev = DevExample /\ inc_arg.block_type = CLB_IO_CLK /\ inc_arg.col_addr = 2
        /\ inc_arg.minor_addr = 57 /\ inc_arg.row_addr = 1)
         => inc_far = FrameAddressRegister(inc_arg.reserved, BRAM_CONTENT, 0, 0, 0,
                                           inc_arg.spec)

\* C3 witness: the last FAR of the last row of the example device was
\* incremented and the block type toggled.
C3_Witness ==
  /\ inc_pc = "ready"
  /\ inc_n > 0
  /\ inc_dev = DevExample
  /\ inc_arg = FrameAddressRegister(1, CLB_IO_CLK, 1, 2, 57, ULTRASCALE_PLUS)
  /\ inc_far = FrameAddressRegister(1, BRAM_CONTENT, 0, 0, 0, ULTRASCALE_PLUS)

\* far addresses a frame of the device: a configurable block type, and a row,
\* a column and a minor inside the device's table.
InDevice(dev, idcode, far) ==
  /\ far.block_type \in {CLB_IO_CLK, BRAM_CONTENT}
  /\ far.row_addr + 1 \in 1..Len(DevRows(dev, idcode, far.block_type))
  /\ far.col_addr + 1 \in 1..Len(DevRows(dev, idcode, far.block_type)[far.row_addr + 1])
  /\ far.minor_addr < DevRows(dev, idcode, far.block_type)[far.row_addr + 1][far.col_addr + 1]

\* C4: from any FAR of the device, N_total increments (the sum of the minor
\* counts of all columns of all rows of both block types) all return and the
\* last returns the starting FAR.
C4_FullCycle ==
  (inc_pc # "idle" /\ inc_idcode \in DevIdcodes(inc_dev)
   /\ InDevice(inc_dev, inc_idcode, inc_start)) =>
    /\ inc_pc = "ready"
    /\ (inc_n = NTotal(inc_dev, inc_idcode) => inc_far = inc_start)

\* C4 witness: a walk from a BRAM content FAR of a two-SLR device went all the
\* way round.
C4_Witness ==
  /\ inc_pc = "ready"
  /\ inc_dev = DevSmall
  /\ inc_idcode = IdcodeA
  /\ inc_start = FrameAddressRegister(0, BRAM_CONTENT, 1, 0, 1, ULTRASCALE)
  /\ inc_n = NTotal(inc_dev, inc_idcode)
  /\ inc_far = inc_start

\* Number of rows of an IDCODE in a table, 0 when the IDCODE is not a key.
NumRows(tbl, idcode) ==
  IF idcode \in DOMAIN tbl THEN Cardinality(DOMAIN tbl[idcode]) ELSE 0

\* C30 as stated: after any sequence of calls of increment, the failing ones
\* included, the two tables of minor counts are the ones the constructor
\* built, and so is the number of rows used for the carry to the block type.
C30_AsStated ==
  inc_pc # "idle" =>
    /\ inc_std = IncTable(inc_dev, "std")
    /\ inc_bram = IncTable(inc_dev, "bram")
    /\ NumRows(inc_std, inc_idcode) = NumRows(IncTable(inc_dev, "std"), inc_idcode)

-----------------------------------------------------------------------------
(* Claims on the FAR codec                                                  *)

\* C5: for both architectures and every 32-bit integer v,
\* from_int(v, arch).to_int() = v, the reserved bits included.
C5_RoundTrip ==
  far_pc = "encoded" => far_out = BinInt(WordBits(far_in))

\* C5 witness: an integer with reserved and block type bits set went through
\* from_int and to_int under the UltraScale+ layout.
C5_Witness ==
  /\ far_pc = "encoded"
  /\ far_arch = ULTRASCALE_PLUS
  /\ far_in = <<255, 255, 128, 1>>
  /\ far_rec.reserved = 31
  /\ far_rec.block_type = 7

\* C6 as stated: under ULTRASCALE, 0x00e00000 decodes to reserved 0,
\* BRAM_CONTENT, row 3, col 0, minor 0 and to_int returns 0x00e00000.
C6_AsStated ==
  (far_pc = "encoded" /\ far_arch = ULTRASCALE /\ far_in = FarExampleInput) =>
    /\ far_rec = FrameAddressRegister(0, BRAM_CONTENT, 3, 0, 0, ULTRASCALE)
    /\ far_out = NatToBin(14680064)

\* C6 amended: under ULTRASCALE, 0x00e00000 decodes to reserved 0,
\* BRAM_CONTENT, row 48 (bits 22:17 are 110000), col 0, minor 0 and to_int
\* returns 0x00e00000.
C6_ExampleDecode ==
  (far_pc = "encoded" /\ far_arch = ULTRASCALE /\ far_in = FarExampleInput) =>
    /\ far_rec = FrameAddressRegister(0, BRAM_CONTENT, 48, 0, 0, ULTRASCALE)
    /\ far_out = NatToBin(14680064)

\* C6 witness: 0x00e00000 was decoded and encoded again under ULTRASCALE.
C6_Witness ==
  /\ far_pc = "encoded"
  /\ far_arch = ULTRASCALE
  /\ far_in = FarExampleInput
  /\ far_rec.row_addr = 48

\* FARs as the bit locator builds them, for either architecture.
BuiltFars ==
  { FrameAddressRegister(0, bt, row, col, minor, spec) :
      bt \in {CLB_IO_CLK, BRAM_CONTENT}, row \in 0..1, col \in 0..1, minor \in 0..1,
      spec \in ArchNames }

\* C25 as stated: a FAR decoded from a word and any FAR that is built are
\* equal iff their five fields are equal, and when they are equal their hashes
\* are equal, so that one finds the other in a dict.
C25_AsStated ==
  far_pc \in {"decoded", "encoded"} =>
    \A other \in BuiltFars :
      /\ FarEq(far_rec, other) <=>
           /\ far_rec.reserved = other.reserved
           /\ far_rec.block_type = other.block_type
           /\ far_rec.row_addr = other.row_addr
           /\ far_rec.col_addr = other.col_addr
           /\ far_rec.minor_addr = other.minor_addr
      /\ FarEq(far_rec, other) => FarHash(far_rec) = FarHash(other)

-----------------------------------------------------------------------------
(* Claims on the packet decoder                                             *)

\* Offsets of sync words at or after a byte offset of the bitstream data.
SyncsAtOrAfter(ofst) == { o \in SyncOfstSet(dec_buf) : o >= ofst }

\* A section whose boundary packet was decoded and whose packets were kept.
Completed(i) == "after" \in DOMAIN dec_sections[i]

\* Index in dec_packets of the last packet of a completed section.
SectionLast(i) ==
  IF i < Len(dec_sections) THEN dec_sections[i + 1].first - 1 ELSE Len(dec_packets)

\* Offset of a kept packet from the start of the bitstream data.
PacketOfst(k) ==
  dec_packets[k].byte_ofst - (IF dec_pc = "done" THEN dec_data_ofst ELSE 0)

\* End offset of the last packet of a completed section.
BoundaryEnd(i) ==
  PacketOfst(SectionLast(i)) + 4 + 4 * Len(dec_packets[SectionLast(i)].data)

\* C7: the first section starts at the first sync word; the section after a
\* boundary packet starts at the smallest sync offset that is at least the end
\* offset of that packet, so never at a sync pattern before that end; when no
\* such offset exists decoding finishes.
C7_NextSection ==
  /\ (dec_pc = "view" /\ Len(dec_sections) = 0) => dec_sync = Min(SyncOfstSet(dec_buf))
  /\ Len(dec_sections) >= 1 => dec_sections[1].sync = Min(SyncOfstSet(dec_buf))
  /\ \A i \in 1..Len(dec_sections) :
       Completed(i) =>
         /\ i < Len(dec_sections) =>
              /\ SyncsAtOrAfter(BoundaryEnd(i)) # {}
              /\ dec_sections[i + 1].sync = Min(SyncsAtOrAfter(BoundaryEnd(i)))
              /\ dec_sections[i + 1].sync >= BoundaryEnd(i)
         /\ (i = Len(dec_sections) /\ dec_pc = "view") =>
              /\ SyncsAtOrAfter(BoundaryEnd(i)) # {}
              /\ dec_sync = Min(SyncsAtOrAfter(BoundaryEnd(i)))
         /\ (i = Len(dec_sections) /\ SyncsAtOrAfter(BoundaryEnd(i)) = {}) => dec_pc = "done"
  /\ dec_pc = "done" =>
       /\ Len(dec_sections) >= 1
       /\ Completed(Len(dec_sections))
       /\ SyncsAtOrAfter(BoundaryEnd(Len(dec_sections))) = {}

\* C7 witness: two sections were decoded, the first holding an FDRI packet
\* whose payload is the sync pattern.
C7_Witness ==
  /\ dec_pc = "done"
  /\ Len(dec_sections) = 2
  /\ Len(dec_syncs) = 3
  /\ \E k \in 1..Len(dec_packets) :
       /\ dec_packets[k].reg_addr = FDRI
       /\ dec_packets[k].data = <<SYNC_WORD>>
       /\ k < dec_sections[2].first

\* A WRITE packet to CMD whose payload is the single word DESYNC.
IsDesyncWrite(p) == p.opcode = 2 /\ p.reg_addr = 4 /\ p.data = << <<0, 0, 0, 13>> >>

\* Where the words discarded after a completed section end: the next sync
\* word at or after the end of its boundary packet, or the end of the data.
DiscardEnd(i) ==
  IF SyncsAtOrAfter(BoundaryEnd(i)) = {} THEN Len(dec_buf)
  ELSE Min(SyncsAtOrAfter(BoundaryEnd(i)))

\* C8 with boundary packets of the kind given: the last packet of every
\* completed section is one, no packet before it in the section is one, the
\* section being decoded holds none before its boundary is found, and no kept
\* packet starts between the end of a boundary packet and the next valid sync.
SectionsEndAt(IsBoundary(_)) ==
  /\ \A i \in 1..Len(dec_sections) :
       Completed(i) =>
         /\ dec_sections[i].first <= SectionLast(i)
         /\ IsBoundary(dec_packets[SectionLast(i)])
         /\ \A k \in dec_sections[i].first..(SectionLast(i) - 1) :
              ~ IsDesyncWrite(dec_packets[k])
         /\ \A k \in 1..Len(dec_packets) :
              ~ (BoundaryEnd(i) <= PacketOfst(k) /\ PacketOfst(k) < DiscardEnd(i))
  /\ dec_pc = "boundary" =>
       /\ Len(dec_sub) >= 1
       /\ IsBoundary(dec_sub[Len(dec_sub)])
       /\ \A k \in 1..(Len(dec_sub) - 1) : ~ IsDesyncWrite(dec_sub[k])
  /\ dec_pc = "loop" => \A k \in 1..Len(dec_sub) : ~ IsDesyncWrite(dec_sub[k])

IsType1DesyncWrite(p) == p.hdr_tpe = 1 /\ IsDesyncWrite(p)

\* C8 as stated: a section ends at a TYPE1 WRITE packet to CMD whose payload is
\* the single word DESYNC, the last packet of the section; no other kind of
\* packet ends a section; no word between its end and the next valid sync
\* gives a packet of the output.
C8_AsStated == SectionsEndAt(IsType1DesyncWrite)

\* C8 amended: a section ends at a WRITE packet to CMD, TYPE1 or TYPE2 with
\* CMD inherited, whose decoded payload is the single word DESYNC, the last
\* packet of the section; no other kind of packet ends a section; no word
\* between its end and the next valid sync gives a packet of the output.
C8_SectionBoundary == SectionsEndAt(IsDesyncWrite)

\* C8 witness: a section ended at a TYPE2 write of DESYNC to CMD, a packet
\* header stood between its end and the sync word of the next section, and
\* that section was decoded too.
C8_Witness ==
  /\ dec_pc = "done"
  /\ Len(dec_sections) = 2
  /\ dec_packets[SectionLast(1)].hdr_tpe = TYPE2
  /\ dec_sections[2].sync = BoundaryEnd(1) + 4

\* The latest loop iteration read a word of the view.
MetAWord == dec_last.status \notin {"none", "IndexError"}

\* The word_count words after the header the latest iteration read.
NextWords(word_count) ==
  [k \in 1..word_count |-> HeaderAt(dec_buf, dec_last.sync, dec_last.word_ofst + k)]

\* C9 as stated: the word at the decode position is classified by bits 31:29.
\* Value 1 gives a TYPE1 packet with opcode bits 28:27, register bits 26:13,
\* reserved bits 12:11, word_count bits 10:0 and the next word_count words as
\* payload; value 2 gives a TYPE2 packet with opcode bits 28:27 and word_count
\* bits 26:0; any other value gives no packet and moves the position by one
\* word.
C9_AsStated ==
  MetAWord =>
    /\ bits(dec_last.hdr, 31, 29) = 1 =>
         /\ dec_last.status = "ok"
         /\ dec_last.packet.hdr_tpe = 1
         /\ dec_last.packet.opcode = bits(dec_last.hdr, 28, 27)
         /\ dec_last.packet.reg_addr = bits(dec_last.hdr, 26, 13)
         /\ dec_last.packet.reserved = bits(dec_last.hdr, 12, 11)
         /\ dec_last.packet.word_count = bits(dec_last.hdr, 10, 0)
         /\ dec_last.packet.data = NextWords(bits(dec_last.hdr, 10, 0))
    /\ bits(dec_last.hdr, 31, 29) = 2 =>
         /\ dec_last.status \in {"ok", "AssertionError"}
         /\ dec_last.status = "ok" =>
              /\ dec_last.packet.hdr_tpe = 2
              /\ dec_last.packet.opcode = bits(dec_last.hdr, 28, 27)
              /\ dec_last.packet.word_count = bits(dec_last.hdr, 26, 0)
    /\ bits(dec_last.hdr, 31, 29) \notin {1, 2} =>
         /\ dec_last.status = "None"
         /\ dec_pc = "loop"
         /\ dec_sync = dec_last.sync
         /\ dec_word_ofst = dec_last.word_ofst + 1
         /\ \A k \in 1..Len(dec_sub) : dec_sub[k].byte_ofst # 4 * dec_last.word_ofst

\* C10: every TYPE2 packet has the register of the TYPE1 packet decoded
\* latest before it; a TYPE2 header met when no TYPE1 packet has been decoded
\* makes decoding fail, and a failed decoding returns no packet list.
C10_Type2Register ==
  /\ (dec_last.status = "ok" /\ dec_last.packet.hdr_tpe = 2) =>
       /\ dec_last.type1 # None
       /\ dec_last.packet.reg_addr = dec_last.type1
  /\ (MetAWord /\ bits(dec_last.hdr, 31, 29) = 2 /\ dec_last.type1 = None) =>
       /\ dec_pc = "AssertionError"
       /\ dec_packets = <<>>
  /\ \A k \in 1..Len(dec_sub) : dec_sub[k].hdr_tpe = 2 => dec_sub[k].reg_addr # None
  /\ \A k \in 1..Len(dec_packets) : dec_packets[k].hdr_tpe = 2 => dec_packets[k].reg_addr # None

\* C10 witness: a TYPE2 packet was decoded after a TYPE1 packet to CMD and made
\* it to the returned list with register CMD.
C10_Witness ==
  /\ dec_pc = "done"
  /\ \E k \in 1..Len(dec_packets) :
       /\ dec_packets[k].hdr_tpe = TYPE2
       /\ dec_packets[k].reg_addr = CMD
  /\ dec_last.status = "ok"
  /\ dec_last.packet.hdr_tpe = TYPE2
  /\ dec_last.type1 = CMD

IsSinkholeWrite(p) == p.hdr_tpe = 2 /\ p.opcode = 2 /\ p.reg_addr = 30

\* C12 as stated: every packet of the decoded packet list has a payload of
\* exactly word_count words, a TYPE2 sinkhole write excepted (no payload); a
\* header whose word count runs past the end of the buffer is never accepted
\* with a shortened payload.
C12_AsStated ==
  \A k \in 1..Len(dec_packets) :
    \/ Len(dec_packets[k].data) = dec_packets[k].word_count
    \/ IsSinkholeWrite(dec_packets[k]) /\ dec_packets[k].data = <<>>

\* C13: no packet with opcode NOOP (0) is in the packet list of a section or
\* in the output list, and the decoder advances past a NOOP packet by its
\* header plus its payload words, so the packets after it are decoded at the
\* offsets they have with the NOOP kept.
C13_NoopDropped ==
  /\ \A k \in 1..Len(dec_sub) : dec_sub[k].opcode # 0
  /\ \A k \in 1..Len(dec_packets) : dec_packets[k].opcode # 0
  /\ (dec_last.status = "ok" /\ dec_last.packet.opcode = 0) =>
       /\ dec_pc = "loop"
       /\ dec_word_ofst = dec_last.word_ofst + 1 + Len(dec_last.packet.data)
       /\ \A k \in 1..Len(dec_sub) : dec_sub[k].byte_ofst < dec_last.packet.byte_ofst

\* C13 witness: a NOOP with a payload of 1 word was decoded after two kept
\* packets and is not in the list.
C13_Witness ==
  /\ dec_last.status = "ok"
  /\ dec_last.packet.opcode = 0
  /\ Len(dec_last.packet.data) = 1
  /\ Len(dec_sub) = 2
  /\ dec_word_ofst = dec_last.word_ofst + 2

\* C28 as stated: decoding of a section stops at the actual sinkhole packet,
\* the TYPE2 write that follows the TYPE1 packet naming RSVD_30: the loop is
\* left once it is decoded and it is the last packet of its section.
C28_AsStated ==
  /\ (dec_last.status = "ok" /\ IsSinkholeWrite(dec_last.packet)) => dec_pc # "loop"
  /\ \A k \in 1..Len(dec_sub) : IsSinkholeWrite(dec_sub[k]) => k = Len(dec_sub)

\* The decoder has left its loops: it returned or an exception ended it.
DecEnded == dec_pc \notin {"start", "view", "loop", "boundary"}

\* C29: decoding terminates on every buffer. Every iteration inside a section
\* moves the word offset up, by 1 over a word that is no packet and by 1 plus
\* the payload words over a packet; from a section to the next the sync offset
\* moves up; the decoder ends, and when it ends in a returned list every
\* section was closed by a DESYNC command, a section without one having ended
\* in an exception.
C29_Terminates ==
  /\ [][/\ (dec_pc = "loop" /\ dec_pc' \in {"loop", "boundary"}) =>
             /\ dec_word_ofst' > dec_word_ofst
             /\ dec_last'.status = "None" => dec_word_ofst' = dec_word_ofst + 1
             /\ dec_last'.status = "ok" =>
                  dec_word_ofst' = dec_word_ofst + 1 + Len(dec_last'.packet.data)
        /\ (dec_pc = "boundary" /\ dec_pc' = "view") => dec_sync' > dec_sync
        /\ (dec_pc = "loop" /\ dec_pc' \notin {"loop", "boundary"}) =>
             dec_pc' \in {"IndexError", "ValueError", "AssertionError"}]_vars
  /\ <>DecEnded
  /\ [](dec_pc = "done" =>
          \A k \in 1..Len(dec_sections) :
            /\ dec_sections[k].first <= SectionLast(k)
            /\ is_reg_cmd_write_pkt(dec_packets[SectionLast(k)], DESYNC))

\* C29 witness: a section without a DESYNC command was decoded packet after
\* packet up to the end of the buffer and ended in an IndexError.
C29_Witness ==
  /\ dec_pc = "IndexError"
  /\ Len(dec_sub) >= 2
  /\ \A k \in 1..Len(dec_sub) : ~ is_reg_cmd_write_pkt(dec_sub[k], DESYNC)
  /\ dec_word_ofst * 4 >= Len(dec_buf) - dec_sync

-----------------------------------------------------------------------------
(* Claims on the frame extraction                                           *)

Max(S) == CHOOSE x \in S : \A y \in S : x >= y

\* The FDRI payloads of the packet list: the non-empty writes to FDRI, each
\* with the IDCODE and the FAR written latest before it.
FdriPayloads == { k \in WriteIdx(ext_packets, 2) : Len(ext_packets[k].data) > 0 }

IdcodeBefore(k) ==
  ext_packets[Max({ j \in WriteIdx(ext_packets, 12) : j < k })].data[1]

FarBefore(k) ==
  from_int(ext_packets[Max({ j \in WriteIdx(ext_packets, 1) : j < k })].data[1],
           ext_dev.arch)

\* far is the last FAR of its row: col = cols_in_row - 1 and
\* minor = minors_in_col - 1.
LastOfRow(dev, idcode, far) ==
  /\ far.col_addr = Len(DevRows(dev, idcode, far.block_type)[far.row_addr + 1]) - 1
  /\ far.minor_addr =
       DevRows(dev, idcode, far.block_type)[far.row_addr + 1][far.col_addr + 1] - 1

\* The frames the payload of packet k gives from frame index idx on, far being
\* the FAR of that frame: the frame is emitted under far, two frames are
\* passed over after the last FAR of a row, and the FAR is incremented.
RECURSIVE StatedFrames(_, _, _)
StatedFrames(k, idx, far) ==
  LET size == frame_size_words(ext_dev.arch)
      words == ext_packets[k].data
  IN  IF idx * size >= Len(words) THEN {}
      ELSE { [idcode |-> IdcodeBefore(k),
              frame |-> [byte_ofst |-> ext_packets[k].byte_ofst + 4 + 4 * idx * size,
                         words |-> SubSeq(words, idx * size + 1, (idx + 1) * size),
                         far |-> far, spec |-> ext_dev.arch]] }
           \cup StatedFrames(k, idx + (IF LastOfRow(ext_dev, IdcodeBefore(k), far)
                                       THEN 3 ELSE 1),
                             StatedIncrement(ext_dev, IdcodeBefore(k), far))

\* The frames passed over after the last FAR of a row are there and all-zero.
RECURSIVE PaddingIsZero(_, _, _)
PaddingIsZero(k, idx, far) ==
  LET size == frame_size_words(ext_dev.arch)
      words == ext_packets[k].data
      last == LastOfRow(ext_dev, IdcodeBefore(k), far)
  IN  IF idx * size >= Len(words) THEN TRUE
      ELSE /\ last =>
                /\ (idx + 3) * size <= Len(words)
                /\ \A i \in ((idx + 1) * size + 1)..((idx + 3) * size) :
                     words[i] = <<0, 0, 0, 0>>
           /\ PaddingIsZero(k, idx + (IF last THEN 3 ELSE 1),
                            StatedIncrement(ext_dev, IdcodeBefore(k), far))

\* The frames of idcode_far_frames, each with its IDCODE.
EmittedFrames ==
  UNION { UNION { { [idcode |-> ext_frames[i].idcode,
                     frame |-> ext_frames[i].fars[j].entries[n]] :
                    n \in 1..Len(ext_frames[i].fars[j].entries) } :
                  j \in 1..Len(ext_frames[i].fars) } :
          i \in 1..Len(ext_frames) }

\* C1: every FDRI payload is cut into consecutive frames of frame_size_words
\* words, the emitted frames get the FARs f0, increment(f0), ... in payload
\* order, and right after each emitted frame whose FAR is the last of its row
\* exactly 2 more frames are consumed, all-zero, not emitted and given no FAR.
C1_FramesAndPadding ==
  /\ ext_pc = "done" =>
       /\ EmittedFrames = UNION { StatedFrames(k, 0, FarBefore(k)) : k \in FdriPayloads }
       /\ \A k \in FdriPayloads : PaddingIsZero(k, 0, FarBefore(k))
  /\ (ext_last.status = "ok"
      /\ (ext_pc \in {"entries", "done"} \/ (ext_pc = "frames" /\ ext_idx > 0))) =>
       LET e == ext_last.entry
           size == frame_size_words(ext_dev.arch)
           far == ext_last.config_frame.far
           idx == ext_last.singleframes_idx
           last == LastOfRow(ext_dev, e.idcode, far)
       IN  /\ ext_last.config_frame.words
                = SubSeq(e.config_array, idx * size + 1, (idx + 1) * size)
           /\ idx = 0 => far = e.far
           /\ ext_idx = idx + (IF last THEN 1 + 2 ELSE 1)
           /\ ext_far = StatedIncrement(ext_dev, e.idcode, far)
           /\ last => \A i \in ((idx + 1) * size + 1)..((idx + 3) * size) :
                        e.config_array[i] = <<0, 0, 0, 0>>
           /\ \A x \in EmittedFrames :
                ~ (x.frame.byte_ofst > ext_last.config_frame.byte_ofst
                   /\ x.frame.byte_ofst < e.base_byte_ofst + 4 * size * ext_idx)

\* C1 witness: a payload that starts at the first FAR of a row was cut into
\* the frames of the row, its two padding frames were passed over and the
\* extraction returned.
C1_Witness ==
  /\ ext_pc = "done"
  /\ ext_last.status = "ok"
  /\ ext_last.singleframes_idx = 2
  /\ ext_idx = 5
  /\ ext_last.config_frame.far = FrameAddressRegister(0, CLB_IO_CLK, 0, 1, 0, ULTRASCALE)
  /\ ext_far = FrameAddressRegister(0, CLB_IO_CLK, 1, 0, 0, ULTRASCALE)
  /\ Cardinality(EmittedFrames) = 3

RawReturned == ext_pc \in {"entries", "frames", "done"} \/ ext_entries >= 1

\* A write to IDCODE, and a write to FAR, stand before packet k.
HasIdcodeBefore(k) == \E j \in WriteIdx(ext_packets, 12) : j < k
HasFarBefore(k) == \E j \in WriteIdx(ext_packets, 1) : j < k

\* The non-empty FDRI writes whose current IDCODE and FAR are idcode and far,
\* in packet order, each as (byte offset of the payload, words).
StatedEntries(idcode, far) ==
  LET ks == SortedSeq({ k \in FdriPayloads :
                          /\ IdcodeBefore(k) = idcode
                          /\ FarEq(FarBefore(k), far) })
  IN  [n \in 1..Len(ks) |-> [byte_ofst |-> ext_packets[ks[n]].byte_ofst + 4,
                              words |-> ext_packets[ks[n]].data]]

StatedPerFrameCrc ==
  /\ \A f \in WriteIdx(ext_packets, 2) :
       Len(ext_packets[f].data) = frame_size_words(ext_dev.arch)
  /\ \A f \in WriteIdx(ext_packets, 2) :
       \E c \in WriteIdx(ext_packets, 0) :
         c > f /\ \A g \in WriteIdx(ext_packets, 2) : ~ (f < g /\ g < c)

CallFailed == ext_pc \notin {"idle", "parsed", "entries", "frames", "done"}

\* The call failed in the loop over the padding frames at the end of a row:
\* one of them is missing or is not all-zero.
PaddingFailed ==
  /\ CallFailed
  /\ ext_entries >= 1
  /\ \E e \in {RawEntries(ext_raw)[ext_entries]} :
     \E l \in {is_last_far_of_row(ext_std, ext_bram, e.idcode, ext_far)} :
       /\ l.status = "ok"
       /\ l.last
       /\ SkipPadding(Reshape(e.config_array, frame_size_words(ext_dev.arch)),
                      ext_idx + 1, NUM_END_OF_ROW_PADDING_FRAMES).status = ext_pc

\* The call failed on an FDRI payload that is not a whole number of frames.
SizeFailed ==
  /\ ext_pc = "AssertionError"
  /\ ext_entries = 0
  /\ ~ ext_compressed
  /\ PerFrameCrcCall(ext_pfc, ext_packets, ext_dev.arch) = [status |-> "ok", value |-> FALSE]
  /\ \E k \in WriteIdx(ext_packets, 2) :
       /\ Len(ext_packets[k].data) % frame_size_words(ext_dev.arch) # 0
       /\ HasIdcodeBefore(k) /\ HasFarBefore(k)
       /\ \A j \in WriteIdx(ext_packets, 2) :
            j < k => Len(ext_packets[j].data) % frame_size_words(ext_dev.arch) = 0

\* C17 as stated: after a call that failed on an integrity violation neither
\* the raw view nor the per-FAR view of the Bitstream is set.
C17_AsStated ==
  (PaddingFailed \/ SizeFailed) => (~ ext_raw_set /\ ~ ext_cache.set)

\* C17: a call that fails on an integrity violation leaves the per-FAR view
\* unset; the raw view is unset after a bad payload size and is the complete
\* raw view, never a part of it, after a padding violation; a call that
\* follows a failed one ends on the same exception and returns no view.
C17_FailedCall ==
  /\ (PaddingFailed \/ SizeFailed) => ~ ext_cache.set
  /\ SizeFailed => ~ ext_raw_set
  /\ PaddingFailed =>
       /\ ext_raw_set
       /\ RawWalk(ext_packets, 1, <<>>, <<>>, <<>>, ext_dev.arch) = [status |-> "ok", raw |-> ext_raw]
  /\ (Len(ext_calls) >= 1 /\ ext_calls[Len(ext_calls)] \in {"AssertionError", "IndexError"}) =>
       /\ ext_pc # "done"
       /\ ~ ext_cache.set
       /\ CallFailed => ext_pc = ext_calls[Len(ext_calls)]

\* A second call has failed on a padding violation as the first one did, on
\* a payload with a padding frame that is not all-zero.
C17_Witness ==
  /\ PaddingFailed
  /\ ext_pc = "AssertionError"
  /\ ext_calls = <<"AssertionError">>
  /\ ext_raw_set

\* C18 as stated: once is_per_frame_crc() has been called (the raw arrays
\* of a bitstream that is not compressed ask for it), it has returned, and
\* the value it returned and keeps for the later calls is true exactly when
\* every FDRI write is one frame and is followed by a CRC write before the
\* next FDRI write.
C18_AsStated ==
  (ext_pc \notin {"idle", "parsed"} /\ ~ ext_compressed) =>
    /\ ext_pfc.set
    /\ ext_pfc.value = StatedPerFrameCrc
    /\ PerFrameCrcCall(ext_pfc, ext_packets, ext_dev.arch) = [status |-> "ok", value |-> ext_pfc.value]

-----------------------------------------------------------------------------
(* Claims on a parsed Bitstream                                             *)

\* The file is a text header of dec_data_ofst bytes followed by the data
\* dec_buf: the word at a byte offset of the file, <<>> outside the data.
FileWordAt(ofst) ==
  IF ofst - dec_data_ofst >= 0 /\ ofst - dec_data_ofst + 4 <= Len(dec_buf)
  THEN SubSeq(dec_buf, ofst - dec_data_ofst + 1, ofst - dec_data_ofst + 4)
  ELSE <<>>

\* h is the header word of packet p.
IsHeaderOf(h, p) ==
  /\ h # <<>>
  /\ bits(h, 31, 29) = p.hdr_tpe
  /\ bits(h, 28, 27) = p.opcode
  /\ IF p.hdr_tpe = 1
       THEN /\ bits(h, 26, 13) = p.reg_addr
            /\ bits(h, 12, 11) = p.reserved
            /\ bits(h, 10, 0) = p.word_count
       ELSE bits(h, 26, 0) = p.word_count

\* C14: every byte offset exposed by a parsed Bitstream is absolute in the
\* file: the 4 bytes at p.byte_ofst are the header word of packet p, in every
\* section and for every header length, and the words of the file from the
\* byte_ofst of an emitted ConfigFrame on are the words of that frame, the
\* padding frames skipped before it counted.
C14_AbsoluteOffsets ==
  /\ \A k \in 1..Len(dec_packets) :
       IsHeaderOf(FileWordAt(dec_packets[k].byte_ofst), dec_packets[k])
  /\ \A i \in 1..Len(ext_frames) : \A j \in 1..Len(ext_frames[i].fars) :
       \A n \in 1..Len(ext_frames[i].fars[j].entries) :
         \A w \in 1..Len(ext_frames[i].fars[j].entries[n].words) :
           FileWordAt(ext_frames[i].fars[j].entries[n].byte_ofst + 4 * (w - 1))
             = ext_frames[i].fars[j].entries[n].words[w]

\* C14 witness: a file with a header of 5 bytes and two sections was parsed
\* and its frames extracted, one of them after the padding frames of a row.
C14_Witness ==
  /\ ext_pc = "done"
  /\ dec_data_ofst = 5
  /\ Len(dec_sections) = 2
  /\ Len(ext_frames) = 2
  /\ \E j \in 1..Len(ext_frames[1].fars) :
       \E n \in 1..Len(ext_frames[1].fars[j].entries) :
         /\ ext_frames[1].fars[j].entries[n].far.row_addr = 1
         /\ ext_frames[1].fars[j].entries[n].words
              = ModelFrame(2, frame_size_words(ext_dev.arch))

-----------------------------------------------------------------------------
(* Claims on the bit locator                                                *)

\* The SLRs of the device, and the entities per column of the resource.
LocSlrs == { loc_dev[i] : i \in 1..Len(loc_dev) }
StatedPerColumn == IF loc_kind = "bram" THEN 24 ELSE 60

\* y is in the range of Y of the SLR for n entities per column.
InSlrRange(slr, y, n) ==
  /\ slr.min_clock_region_row_idx * n <= y
  /\ y <= (slr.max_clock_region_row_idx + 1) * n - 1

\* C19: the SLR the locator resolves is the one whose range
\* [min_row_major * N, (max_row_major + 1) * N - 1] holds the Y coordinate,
\* N being 60 for CLB BELs and 24 for 18-Kib BRAMs; when no range holds it
\* the call fails with no SLR and no row.
C19_SlrResolution ==
  /\ loc_pc \notin {"idle", "start", "AssertionError"} =>
       \E slr \in LocSlrs :
         /\ slr.name = loc_slr[1]
         /\ InSlrRange(slr, loc_y, StatedPerColumn)
         /\ \A other \in LocSlrs :
              InSlrRange(other, loc_y, StatedPerColumn) => other = slr
  /\ loc_pc = "AssertionError" =>
       /\ \A slr \in LocSlrs : ~ InSlrRange(slr, loc_y, StatedPerColumn)
       /\ loc_slr = <<>>
       /\ loc_row = <<>>
  /\ (loc_pc \notin {"idle", "start"}
        /\ \A slr \in LocSlrs : ~ InSlrRange(slr, loc_y, StatedPerColumn)) =>
       loc_pc = "AssertionError"

\* A BRAM at the last Y of the topmost of three SLRs has been resolved.
C19_Witness ==
  /\ loc_pc = "slr"
  /\ loc_dev = LocThreeSlrs
  /\ loc_kind = "bram"
  /\ loc_y = 95
  /\ loc_slr = <<"SLR2">>

\* Two SLRs one above the other, and the first Y of the upper one.
Adjacent(lower, upper) ==
  upper.min_clock_region_row_idx = lower.max_clock_region_row_idx + 1
BoundaryY(upper) == upper.min_clock_region_row_idx * StatedPerColumn

\* C20 as stated: at the boundary of two SLRs the Y just below goes to the
\* lower SLR, the Y just above to the upper one, and the Y equal to
\* min_row_major * N to the lower one.
C20_AsStated ==
  loc_slr # <<>> =>
    \A lower, upper \in LocSlrs :
      Adjacent(lower, upper) =>
        /\ loc_y = BoundaryY(upper) - 1 => loc_slr = <<lower.name>>
        /\ loc_y = BoundaryY(upper) + 1 => loc_slr = <<upper.name>>
        /\ loc_y = BoundaryY(upper) => loc_slr = <<lower.name>>

\* C20: at the boundary of two SLRs the Y just below min_row_major * N of
\* the upper SLR goes to the lower SLR, in its last row; the Y equal to
\* min_row_major * N and the Y just above go to the upper SLR, in its row 0.
C20_Boundary ==
  loc_slr # <<>> =>
    \A lower, upper \in LocSlrs :
      Adjacent(lower, upper) =>
        /\ loc_y = BoundaryY(upper) - 1 =>
             /\ loc_slr = <<lower.name>>
             /\ loc_row # <<>> =>
                  loc_row = <<lower.max_clock_region_row_idx
                              - lower.min_clock_region_row_idx>>
        /\ loc_y \in {BoundaryY(upper), BoundaryY(upper) + 1} =>
             /\ loc_slr = <<upper.name>>
             /\ loc_row # <<>> => loc_row = <<0>>

\* A CLB BEL at Y = min_row_major * 60 of the upper of two SLRs has been
\* located.
C20_Witness ==
  /\ loc_pc = "row"
  /\ loc_dev = LocTwoSlrs
  /\ loc_kind = "lut"
  /\ loc_y = 120
  /\ loc_slr = <<"SLR1">>
  /\ loc_row = <<0>>

\* The SLR of the device with a name.
StatedSlr(name) == CHOOSE slr \in LocSlrs : slr.name = name

\* C21: locate_lut on a 6LUT name it accepts returns one SLR and one
\* (FAR, offset) pair per bit of the equation; every FAR has reserved 0, block
\* type CLB_IO_CLK, the row floor(y / 60) minus the first row major of the SLR
\* and the column major the device table gives for x in that SLR and row; the
\* i-th minor and offset are the i-th entries of the architecture table for the
\* tile type of the column at the Y offset y mod 60; the offsets lie in
\* [0, 32 * frame_size_words).
C21_LutLocation ==
  (loc_pc = "located" /\ loc_kind = "lut") =>
    /\ loc_bel \in {"A6LUT", "H6LUT"}
    /\ Len(loc_out) = 1
    /\ \E slr \in {StatedSlr(loc_out[1].slr_name)} :
       \E row \in {(loc_y \div 60) - slr.min_clock_region_row_idx} :
       \E entry \in {LutLoc(slr.rowMajors[row + 1].clb_tileTypes[loc_x], loc_y % 60, loc_bel)} :
         /\ InSlrRange(slr, loc_y, 60)
         /\ Len(loc_out[1].fars) = LutInitBits
         /\ Len(loc_out[1].frame_ofsts) = LutInitBits
         /\ \A i \in 1..LutInitBits :
              /\ loc_out[1].fars[i]
                   = [spec |-> LocArSpec, reserved |-> 0, block_type |-> CLB_IO_CLK,
                      row_addr |-> row,
                      col_addr |-> slr.rowMajors[row + 1].clb_colMajors[loc_x],
                      minor_addr |-> entry.minors[i]]
              /\ loc_out[1].frame_ofsts[i] = entry.frame_ofsts[i]
              /\ loc_out[1].frame_ofsts[i] >= 0
              /\ loc_out[1].frame_ofsts[i] < 32 * frame_size_words(LocArSpec)

\* SLICE_X1Y125/H6LUT has been located in the upper of two SLRs.
C21_Witness ==
  /\ loc_pc = "located"
  /\ loc_kind = "lut"
  /\ loc_dev = LocTwoSlrs
  /\ loc_bel = "H6LUT"
  /\ loc_x = 1
  /\ loc_y = 125
  /\ loc_out[1].slr_name = "SLR1"

\* C27 as stated: no call of the locator, failing calls included, adds a key
\* to the tables of the architecture summary.
C27_AsStated ==
  /\ loc_lut_added = {}
  /\ loc_reg_added = {}

-----------------------------------------------------------------------------
(* Claims on the state checker                                              *)

\* Bit k of a 32-bit word, bit 0 being the least significant bit of the last
\* byte.
StatedWordBit(w, k) == (w[4 - (k \div 8)] \div (2 ^ (k % 8))) % 2

\* The bit of a frame at an offset: bit (offset mod 32) of word (offset div 32).
StatedFrameBit(frame, ofst) == StatedWordBit(frame.words[(ofst \div 32) + 1], ofst % 32)

\* C22: the check of a flip-flop passes iff the bit of the frame at the
\* located offset is the complement of the expected 1-bit INIT value.
C22_FFInverted ==
  chk_pc \in {"pass", "fail"} =>
    (chk_pc = "pass" <=> StatedFrameBit(chk_frame, chk_ofst) = 1 - chk_init.value[1])

\* A flip-flop with INIT 1 passes on a frame bit of 0, in the second word of a
\* frame.
C22_Witness ==
  /\ chk_pc = "pass"
  /\ chk_init.value = <<1>>
  /\ chk_ofst >= 32
  /\ chk_found = 0
  /\ StatedFrameBit(chk_frame, chk_ofst) = 0

-----------------------------------------------------------------------------
(* Claims on the differ                                                     *)

\* The two views differ in structure: in their IDCODEs, in the FARs of an
\* IDCODE, in the number of frames of a FAR or in the byte offset of a frame.
StatedMismatch(baseline, modified) ==
  \/ DOMAIN baseline # DOMAIN modified
  \/ \E idcode \in DOMAIN baseline \cap DOMAIN modified :
       \/ DOMAIN baseline[idcode] # DOMAIN modified[idcode]
       \/ \E far \in DOMAIN baseline[idcode] \cap DOMAIN modified[idcode] :
            \/ Len(baseline[idcode][far]) # Len(modified[idcode][far])
            \/ \E k \in 1..Len(baseline[idcode][far]) :
                 /\ k <= Len(modified[idcode][far])
                 /\ baseline[idcode][far][k].byte_ofst # modified[idcode][far][k].byte_ofst

\* The disagreements of two views of one structure: the pair of frames, the
\* bit position and the polarity.
StatedDisagreements(baseline, modified) ==
  UNION { UNION { UNION {
    { [idcode |-> idcode, far |-> far, pair |-> k, frame_offset |-> ofst,
       polarity |-> IF StatedFrameBit(baseline[idcode][far][k], ofst) = 0 THEN "+" ELSE "-"] :
        ofst \in { o \in 0..(32 * Len(baseline[idcode][far][k].words) - 1) :
                     StatedFrameBit(baseline[idcode][far][k], o)
                       # StatedFrameBit(modified[idcode][far][k], o) } } :
      k \in 1..Len(baseline[idcode][far]) } :
      far \in DOMAIN baseline[idcode] } :
      idcode \in DOMAIN baseline }

\* An emitted entry as the tuple (idcode, far, frame_offset, polarity).
EmittedTuple(entry) ==
  [idcode |-> entry.idcode, far |-> entry.far, frame_offset |-> entry.frame_ofst.ofst,
   polarity |-> IF entry.frame_ofst.mark = "" THEN "+" ELSE "-"]

\* The differ has gone through every IDCODE.
DifLoopDone == (dif_pc = "loop" /\ dif_todo = <<>>) \/ dif_pc = "returned"

\* C23: on two views that differ in structure the differ fails by assertion
\* inside its loops and returns nothing; on two views of one structure it
\* emits exactly one tuple (idcode, far, frame_offset, polarity) for every bit
\* position at which two corresponding frames disagree and none for the others,
\* with polarity + for a bit that goes from 0 to 1 and - for one that goes from
\* 1 to 0.
C23_Disagreements ==
  /\ (dif_pc # "idle" /\ StatedMismatch(dif_baseline, dif_modified)) =>
       /\ ~DifLoopDone
       /\ dif_pc = "AssertionError" => dif_out = <<>>
  /\ (DifLoopDone /\ ~StatedMismatch(dif_baseline, dif_modified)) =>
       \E stated \in {StatedDisagreements(dif_baseline, dif_modified)} :
         /\ Len(dif_out) = Cardinality(stated)
         /\ { EmittedTuple(dif_out[k]) : k \in 1..Len(dif_out) }
              = { [idcode |-> d.idcode, far |-> d.far, frame_offset |-> d.frame_offset,
                   polarity |-> d.polarity] : d \in stated }

\* The differ returns tuples of both polarities, one of them in the last word
\* of a frame.
C23_Witness ==
  /\ dif_pc = "returned"
  /\ \E k \in 1..Len(dif_out) : dif_out[k].frame_ofst.mark = ""
  /\ \E k \in 1..Len(dif_out) :
       /\ dif_out[k].frame_ofst.mark = "!"
       /\ dif_out[k].frame_ofst.ofst = 32 * FrameWordsUltraScale - 1

\* The IDCODEs under which two views of one structure disagree.
StatedIdcodes(baseline, modified) ==
  { d.idcode : d \in StatedDisagreements(baseline, modified) }

\* C24: the differ returns only when all emitted tuples share one IDCODE; with
\* disagreements under two IDCODEs, and with no disagreement at all, it ends in
\* an assertion failure and returns no list.
C24_SingleIdcode ==
  /\ dif_pc = "returned" =>
       Cardinality({ dif_out[k].idcode : k \in 1..Len(dif_out) }) = 1
  /\ (dif_pc \in {"returned", "AssertionError"}
        /\ ~StatedMismatch(dif_baseline, dif_modified)) =>
       (dif_pc = "returned"
          <=> Cardinality(StatedIdcodes(dif_baseline, dif_modified)) = 1)

\* Two bitstreams of one structure that disagree under two IDCODEs end in the
\* assertion failure.
C24_Witness ==
  /\ dif_pc = "AssertionError"
  /\ ~StatedMismatch(dif_baseline, dif_modified)
  /\ Cardinality(StatedIdcodes(dif_baseline, dif_modified)) = 2

-----------------------------------------------------------------------------
(* Claims on the table registry                                             *)

\* C26 as stated: whatever the interleaving of the threads that access a
\* device for the first time, its table is built once, every finished call
\* has returned that one object, and the registry entry is written once.
C26_AsStated ==
  /\ reg_loads <= 1
  /\ reg_writes <= 1
  /\ \A t \in RegThreads, u \in RegThreads :
       (reg_ret[t] # None /\ reg_ret[u] # None) => reg_ret[t] = reg_ret[u]

====
